---- MODULE Spec2Model ----
(***************************************************************************)
(* Model of the FlipDish chat-turn engine: ChatbotService.chat() and its   *)
(* helpers (unnamed/part_004, the chatbot service with the checkout        *)
(* interceptor), the Domain Gateway capabilities it calls                  *)
(* (src/api/flipdish-api.ts) and the provider's sendMessage that feeds the *)
(* returned history back in (src/context/FlipDishProvider.tsx).            *)
(*                                                                         *)
(* Strings are modelled as sequences of tokens: "T" is the literal prefix  *)
(* "Tell the user:", "s" one whitespace character, "q" one double quote;   *)
(* every other token is a word.  An absent (undefined) string is NoStr, an *)
(* absent array or object is the empty sequence and a present one is a     *)
(* one-element sequence holding it.                                        *)
(***************************************************************************)
EXTENDS Integers, Sequences, FiniteSets, TLC

\* ------------------------------------------------------------------------
\* Bounds
\* ------------------------------------------------------------------------
MaxTurns == 2
MaxCalls == 2
MaxQty == 2
MaxFaults == 1

\* ------------------------------------------------------------------------
\* Values
\* ------------------------------------------------------------------------
NoStr == "~undefined"
NoId == 0
AutoShowItemsId == 99

MenuItemIds == {1, 2}

EmptyBasket == [i \in MenuItemIds |-> 0]

BasketLines(b) == {i \in MenuItemIds : b[i] > 0}

\* The JavaScript object a tool call evaluates to (or that JSON.parse gives
\* back); a field that is undefined or missing holds its "absent" value.
NoResult ==
    [defined |-> TRUE, status |-> 0, error |-> NoStr, message |-> NoStr,
     dataItems |-> <<>>, displayType |-> NoStr, items |-> <<>>,
     orderId |-> NoStr, leadTimePrompt |-> <<>>, basket |-> <<>>,
     validIds |-> <<>>, verified |-> <<>>, available |-> <<>>]

\* The value `undefined` where a result object was expected.
UndefinedResult == [NoResult EXCEPT !.defined = FALSE]

NoArgs ==
    [menuItemIds |-> <<>>, menuItemId |-> NoId, quantity |-> 0,
     optionSetId |-> NoStr, selectedOption |-> NoStr]

TextContent(t) == [kind |-> "text", text |-> t, val |-> NoResult]

Msg(role, content) ==
    [role |-> role, content |-> content, tool_call_id |-> NoId,
     tool_calls |-> <<>>]

\* JSON.stringify(result) as used for the content of a tool message: the
\* JSON text of an object, and undefined (no string at all) for undefined.
JSONstringify(result) ==
    IF result.defined
    THEN [kind |-> "json", text |-> <<>>, val |-> result]
    ELSE [kind |-> "undefined", text |-> <<>>, val |-> NoResult]

JSONparse_Lenient(content) == [ok |-> TRUE, isNull |-> FALSE, val |-> content.val]

\* JSON.parse(content): ok is FALSE when the call throws (SyntaxError);
\* isNull tells the text "null", which parses to a value no property can be
\* read from.
JSONparse(content) ==
    IF content.kind = "json"
    THEN [ok |-> TRUE, isNull |-> FALSE, val |-> content.val]
    ELSE IF content.kind = "null"
    THEN [ok |-> TRUE, isNull |-> TRUE, val |-> NoResult]
    ELSE [ok |-> FALSE, isNull |-> FALSE, val |-> NoResult]

\* `msg.content` used as a condition: undefined and '' are falsy.
Truthy(content) ==
    \/ content.kind = "json"
    \/ content.kind = "null"
    \/ content.kind = "context"
    \/ content.kind = "text" /\ content.text # <<>>

\* ------------------------------------------------------------------------
\* Pure helpers of ChatbotService
\* ------------------------------------------------------------------------
RECURSIVE DropLeading(_, _)
DropLeading(s, tok) ==
    IF s # <<>> /\ Head(s) = tok THEN DropLeading(Tail(s), tok) ELSE s

RECURSIVE DropTrailing(_, _)
DropTrailing(s, tok) ==
    IF s # <<>> /\ s[Len(s)] = tok
    THEN DropTrailing(SubSeq(s, 1, Len(s) - 1), tok)
    ELSE s

ThanksText == <<"Thanks! Your order has been placed.">>
ThanksWithId(orderId) == <<"Thanks! Your order has been placed.", "Order ID:", orderId>>
BasketEmptyText == <<"Your basket is empty. Please add items first.">>
OrderFailedText == <<"Order failed.">>

\* prompt.replace(/^Tell the user:\s*/i, '').trim()
StripTellPrefix(prompt) ==
    LET noPrefix == IF prompt # <<>> /\ Head(prompt) = "T"
                    THEN DropLeading(Tail(prompt), "s")
                    ELSE prompt
    IN  DropTrailing(DropLeading(noPrefix, "s"), "s")

\* trimmed.replace(/^"+|"+$/g, '')
StripQuotes(trimmed) == DropTrailing(DropLeading(trimmed, "q"), "q")

NormalizeKeepQuotes(prompt) ==
    LET unquoted == StripTellPrefix(prompt)
    IN  IF unquoted # <<>> THEN unquoted ELSE ThanksText

normalizeLeadTimePrompt(prompt) ==
    LET unquoted == StripQuotes(StripTellPrefix(prompt))
    IN  IF unquoted # <<>> THEN unquoted ELSE ThanksText

CheckoutWords == {"buy", "checkout", "order", "pay", "purchase"}

isCheckoutIntent_NoOrder(text) ==
    \/ \E i \in 1..Len(text) : text[i] \in CheckoutWords \ {"order"}
    \/ \E i \in 1..(Len(text) - 1) : text[i] = "check" /\ text[i + 1] = "out"

\* /\b(buy|checkout|check out|order|place order|submit order|pay|purchase)\b/
\* on the lower-cased text; the text is a sequence of words.
isCheckoutIntent(text) ==
    \/ \E i \in 1..Len(text) : text[i] \in CheckoutWords
    \/ \E i \in 1..(Len(text) - 1) : text[i] = "check" /\ text[i + 1] = "out"

\* Index of the last message satisfying P, 0 when there is none.
LastIndex(messages, P(_)) ==
    LET hits == {i \in 1..Len(messages) : P(messages[i])}
    IN  IF hits = {} THEN 0 ELSE CHOOSE i \in hits : \A j \in hits : j <= i

\* The text of the last user message, <<"~null">> when there is none.
getLastUserMessage(messages) ==
    LET IsUser(m) == m.role = "user"
        i == LastIndex(messages, IsUser)
    IN  IF i = 0 THEN [found |-> FALSE, text |-> <<>>]
        ELSE [found |-> TRUE, text |-> messages[i].content.text]

extractSearchResultsFromHistory_Forward(messages) ==
    LET hits == {i \in 1..Len(messages) :
                    /\ messages[i].role = "tool"
                    /\ messages[i].content.kind = "json"
                    /\ messages[i].content.val.dataItems # <<>>}
    IN  IF hits = {} THEN <<>>
        ELSE messages[CHOOSE i \in hits : \A j \in hits : i <= j].content.val.dataItems[1]

\* Backward scan for the latest tool message whose JSON has data.items.
extractSearchResultsFromHistory(messages) ==
    LET HasItems(m) ==
            /\ m.role = "tool"
            /\ Truthy(m.content)
            /\ JSONparse(m.content).ok
            /\ ~JSONparse(m.content).isNull
            /\ JSONparse(m.content).val.dataItems # <<>>
        i == LastIndex(messages, HasItems)
    IN  IF i = 0 THEN <<>> ELSE JSONparse(messages[i].content).val.dataItems[1]

withContext_AtFront(messages, context) == context \o messages

\* The sequence with the context message spliced in.
withContext(messages, context) ==
    IF context = <<>> THEN messages
    ELSE IF messages = <<>> THEN context
    ELSE IF messages[1].role = "system"
         THEN <<messages[1]>> \o context \o Tail(messages)
    ELSE context \o messages

insertContextMessage_Splice(messages, context) ==
    [returned |-> withContext(messages, context),
     messages |-> withContext(messages, context)]

\* insertContextMessage: the sequence it returns, and the array it was given
\* as the call leaves it (the code builds a new array and leaves its
\* argument alone).
insertContextMessage(messages, context) ==
    [returned |-> withContext(messages, context),
     messages |-> messages]

formatBasketContext(basket) ==
    Msg("system",
        [kind |-> "context", text |-> <<"Basket context (read-only):">>,
         val |-> [NoResult EXCEPT !.basket = <<basket>>]])

\* Backward scan for the latest tool message with a lead-time prompt or an
\* order id; <<>> stands for null.
buildOrderConfirmation(messages) ==
    LET Confirms(m) ==
            /\ m.role = "tool"
            /\ Truthy(m.content)
            /\ JSONparse(m.content).ok
            /\ \/ JSONparse(m.content).val.leadTimePrompt # <<>>
               \/ JSONparse(m.content).val.orderId # NoStr
        i == LastIndex(messages, Confirms)
        parsed == JSONparse(messages[i].content).val
    IN  IF i = 0 THEN <<>>
        ELSE IF parsed.leadTimePrompt # <<>>
             THEN normalizeLeadTimePrompt(parsed.leadTimePrompt)
        ELSE ThanksWithId(parsed.orderId)

checkAuthStatus_TokenOnly(messages) ==
    [authRequired |-> FALSE,
     tokenExpired |->
        \E i \in 1..Len(messages) :
            /\ messages[i].role = "tool"
            /\ messages[i].content.kind = "json"
            /\ messages[i].content.val.error = "TOKEN_EXPIRED"]

\* The flags of the tool messages: the error field of the parsed content,
\* and the substring TOKEN_EXPIRED when the content does not parse.
checkAuthStatus(messages) ==
    LET Has(code) ==
            \E i \in 1..Len(messages) :
                /\ messages[i].role = "tool"
                /\ Truthy(messages[i].content)
                /\ IF /\ JSONparse(messages[i].content).ok
                      /\ ~JSONparse(messages[i].content).isNull
                   THEN JSONparse(messages[i].content).val.error = code
                   ELSE code = "TOKEN_EXPIRED"
                        /\ \E k \in 1..Len(messages[i].content.text) :
                              messages[i].content.text[k] = "TOKEN_EXPIRED"
    IN  [authRequired |-> Has("AUTHENTICATION_REQUIRED"),
         tokenExpired |-> Has("TOKEN_EXPIRED")]

\* An error thrown by a gateway call: a FlipdishApiError.  cap and signal
\* are not fields of the error: they record the capability that failed and
\* the error code the gateway gave for it.
ApiError(code, message) ==
    [api |-> TRUE, errorCode |-> code, message |-> message, userMessage |-> NoStr,
     cap |-> NoStr, signal |-> code]

\* new Error(message), as thrown by a tool.
NewError(message) ==
    [api |-> FALSE, errorCode |-> NoStr, message |-> message, userMessage |-> NoStr,
     cap |-> NoStr, signal |-> NoStr]

handleToolError(error) ==
    IF error.errorCode = "TOKEN_EXPIRED"
    THEN [NoResult EXCEPT !.error = "TOKEN_EXPIRED",
                          !.message = "Your session has expired. Please sign in again."]
    ELSE IF error.message = "closed"
    THEN [NoResult EXCEPT !.error = "RESTAURANT_CLOSED",
                          !.message = "The restaurant is currently closed."]
    ELSE [NoResult EXCEPT !.error = IF error.userMessage # NoStr
                                    THEN error.userMessage ELSE error.message]

\* const functionMessages = [...messages, responseMessage]
newFunctionMessages(messages, responseMessage) == Append(messages, responseMessage)

\* ------------------------------------------------------------------------
\* Inputs: what the user, the completion endpoint and the backend may say
\* ------------------------------------------------------------------------
UserTexts == {<<"place", "order">>, <<"show", "pizza">>}

AssistantTexts == {<<>>, <<"s">>, <<"Sure">>}

LeadTimePrompts ==
    {<<"T", "s", "q", "Your pizza arrives in 20 minutes", "q">>,
     <<"T", "s", "q", "q">>}

SearchAnswers == {<<>>, <<1, 2>>}

GatewayErrors(cap) ==
    {[e EXCEPT !.cap = cap] :
        e \in IF cap = "updateBasket"
              THEN {ApiError("TOKEN_EXPIRED", "Token expired or invalid"),
                    ApiError(NoStr, "closed")}
              ELSE {ApiError("TOKEN_EXPIRED", "Token expired or invalid")}}

\* OrderResult values flipdishApi.submitOrder may resolve to.
SubmitOrderResults ==
    {[success |-> FALSE, orderId |-> NoStr, leadTimePrompt |-> <<>>,
      error |-> e, errorCode |-> c] :
        e \in {"No payment method available", NoStr}, c \in {NoStr}}
    \cup
    {[success |-> FALSE, orderId |-> NoStr, leadTimePrompt |-> <<>>,
      error |-> "Order failed", errorCode |-> "TOKEN_EXPIRED"]}
    \cup
    {[success |-> TRUE, orderId |-> o, leadTimePrompt |-> <<>>,
      error |-> NoStr, errorCode |-> NoStr] : o \in {NoStr, "o1"}}
    \cup
    {[success |-> TRUE, orderId |-> "o1", leadTimePrompt |-> p,
      error |-> NoStr, errorCode |-> NoStr] : p \in LeadTimePrompts}

\* The option sets of the menu items (search/text API shape).
OptionSetsOf(menuItemId) ==
    IF menuItemId = 1
    THEN <<[optionSetId |-> "Choose your base", options |-> <<"Brown Rice", "Salad">>],
           [optionSetId |-> "Extras", options |-> <<"Guacamole">>]>>
    ELSE <<>>

ItemName(menuItemId) == IF menuItemId = 1 THEN "Burrito" ELSE "Cola"

toLowerCase_Identity(str) == str

toLowerCase(str) ==
    CASE str \in {"Choose your base", "choose your base"} -> "choose your base"
      [] str \in {"Brown Rice", "brown rice"} -> "brown rice"
      [] str \in {"Salad", "salad"} -> "salad"
      [] str \in {"Extras", "extras"} -> "extras"
      [] str \in {"Guacamole", "GUACAMOLE", "guacamole"} -> "guacamole"
      [] str \in {"Size", "size"} -> "size"
      [] str \in {"Fries", "fries"} -> "fries"
      [] OTHER -> str

\* A tool call of the completion answer: `args` is what JSON.parse gives for
\* function.arguments, and parses is FALSE when that text is not valid JSON.
ToolCall(name, args) == [id |-> NoId, name |-> name, args |-> args, parses |-> TRUE]

\* The tool-call requests the completion endpoint picks from.
ToolMenu ==
    {ToolCall("search_menu", NoArgs),
     ToolCall("show_items", [NoArgs EXCEPT !.menuItemIds = <<1, 3>>]),
     ToolCall("verify_option_selection",
              [NoArgs EXCEPT !.menuItemId = 1, !.optionSetId = "choose your base",
                             !.selectedOption = "brown rice"]),
     ToolCall("verify_option_selection",
              [NoArgs EXCEPT !.menuItemId = 3, !.optionSetId = "choose your base",
                             !.selectedOption = "brown rice"]),
     ToolCall("add_to_basket", [NoArgs EXCEPT !.menuItemId = 1]),
     ToolCall("add_to_basket", [NoArgs EXCEPT !.menuItemId = 3]),
     ToolCall("remove_from_basket", [NoArgs EXCEPT !.menuItemId = 1]),
     ToolCall("clear_basket", NoArgs),
     ToolCall("submit_order", NoArgs),
     [ToolCall("search_menu", NoArgs) EXCEPT !.parses = FALSE]}

\* The calls the completion endpoint combines when it asks for several
\* tools in one answer.
ToolMenuCombined ==
    {c \in ToolMenu :
        /\ c.name \in {"search_menu", "show_items", "add_to_basket",
                       "remove_from_basket", "submit_order"}
        /\ c.args.menuItemId # 3}

ToolCallLists(n) ==
    IF n < 1 THEN {}
    ELSE [1..1 -> ToolMenu] \cup UNION {[1..k -> ToolMenuCombined] : k \in 2..n}

\* The number of tool calls the completion endpoint has asked for in the
\* conversation so far.
RECURSIVE RequestedCalls(_)
RequestedCalls(msgs) ==
    IF msgs = <<>> THEN 0
    ELSE Cardinality({k \in 1..Len(Head(msgs).tool_calls) :
                        Head(msgs).tool_calls[k].id # AutoShowItemsId})
         + RequestedCalls(Tail(msgs))

\* ------------------------------------------------------------------------
\* Domain Gateway (flipdishApi) as seen by the chatbot service
\* ------------------------------------------------------------------------
\* The calls made to each capability, and the order submissions the backend
\* accepted.
NoCalls ==
    [getBasket |-> 0, updateBasket |-> 0, clearBasket |-> 0,
     searchMenu |-> 0, submitOrder |-> 0, ordersAccepted |-> 0]

Called(calls, cap) == [calls EXCEPT ![cap] = @ + 1]

Min(a, b) == IF a < b THEN a ELSE b

\* An outcome of executing code against the gateway: what it returned or
\* threw, the backend basket afterwards, and the gateway calls it made.
Returned(result, basket, calls) ==
    [thrown |-> FALSE, result |-> result, error |-> ApiError(NoStr, NoStr),
     basket |-> basket, calls |-> calls]

Thrown(error, basket, calls) ==
    [thrown |-> TRUE, result |-> NoResult, error |-> error,
     basket |-> basket, calls |-> calls]

BasketSummary(basket) == [NoResult EXCEPT !.basket = <<basket>>]

Filter(seq, Keep(_)) ==
    LET F[i \in 0..Len(seq)] ==
            IF i = 0 THEN <<>>
            ELSE IF Keep(seq[i]) THEN Append(F[i - 1], seq[i]) ELSE F[i - 1]
    IN  F[Len(seq)]

Includes(seq, x) == \E k \in 1..Len(seq) : seq[k] = x

\* flipdishApi.getBasket
getBasket(basket, calls) ==
    {Returned(BasketSummary(basket), basket, Called(calls, "getBasket"))}
    \cup {Thrown(e, basket, Called(calls, "getBasket")) : e \in GatewayErrors("getBasket")}

\* flipdishApi.updateBasket with addMenuItems
updateBasketAdd(basket, calls, menuItemId, quantity) ==
    (IF menuItemId \in MenuItemIds /\ basket[menuItemId] + quantity <= MaxQty
     THEN {Returned(r, [basket EXCEPT ![menuItemId] = @ + quantity],
                    Called(calls, "updateBasket")) :
             r \in {BasketSummary([basket EXCEPT ![menuItemId] = @ + quantity]),
                    UndefinedResult}}
     ELSE {})
    \cup {Thrown(e, basket, Called(calls, "updateBasket")) : e \in GatewayErrors("updateBasket")}

\* flipdishApi.updateBasket with removeMenuItems
updateBasketRemove(basket, calls, menuItemId, quantity) ==
    LET after == IF menuItemId \in MenuItemIds
                 THEN [basket EXCEPT ![menuItemId] = @ - Min(@, quantity)]
                 ELSE basket
    IN  {Returned(r, after, Called(calls, "updateBasket")) :
            r \in {BasketSummary(after), UndefinedResult}}
        \cup {Thrown(e, basket, Called(calls, "updateBasket")) : e \in GatewayErrors("updateBasket")}

\* flipdishApi.clearBasket
clearBasket(basket, calls) ==
    {Returned(NoResult, EmptyBasket, Called(calls, "clearBasket"))}
    \cup {Thrown(e, basket, Called(calls, "clearBasket")) : e \in GatewayErrors("clearBasket")}

\* flipdishApi.searchMenu
searchMenu(basket, calls) ==
    {Returned([NoResult EXCEPT !.items = <<items>>], basket,
              Called(calls, "searchMenu")) : items \in SearchAnswers}
    \cup {Thrown(e, basket, Called(calls, "searchMenu")) : e \in GatewayErrors("searchMenu")}

\* flipdishApi.submitOrder: resolves to an OrderResult (kept in `order`) or
\* throws; a successful submission empties the backend basket.
submitOrder(basket, calls) ==
    {[thrown |-> FALSE, order |-> r,
      error |-> ApiError(NoStr, NoStr),
      basket |-> IF r.success THEN EmptyBasket ELSE basket,
      calls |-> IF r.success
                THEN Called(Called(calls, "submitOrder"), "ordersAccepted")
                ELSE Called(calls, "submitOrder")] : r \in SubmitOrderResults}
    \cup
    {[thrown |-> TRUE, order |-> CHOOSE r \in SubmitOrderResults : ~r.success /\ r.error = NoStr,
      error |-> e, basket |-> basket,
      calls |-> Called(calls, "submitOrder")] :
        e \in GatewayErrors("submitOrder")}

\* ------------------------------------------------------------------------
\* ChatbotService.executeTool: the set of outcomes of one tool call
\* ------------------------------------------------------------------------
OkStatus(result) == [result EXCEPT !.status = 200]

showItems_RequestedOrder(args, searchResults) ==
    LET Cached(id) == Includes(searchResults, id)
    IN  [NoResult EXCEPT !.status = 200, !.displayType = "menu_cards",
                         !.items = <<Filter(args.menuItemIds, Cached)>>]

\* const items = searchResults.filter(item =>
\*     requestedIds.includes(item.menuItemId))
showItems(args, searchResults) ==
    LET Requested(id) == Includes(args.menuItemIds, id)
    IN  [NoResult EXCEPT !.status = 200, !.displayType = "menu_cards",
                         !.items = <<Filter(searchResults, Requested)>>]

verifyOptionSelection(args, searchResults) ==
    LET sets == OptionSetsOf(args.menuItemId)
        setHits == {k \in 1..Len(sets) :
                      toLowerCase(sets[k].optionSetId) = toLowerCase(args.optionSetId)}
        optionSet == sets[CHOOSE k \in setHits : \A j \in setHits : k <= j]
        optHits == {k \in 1..Len(optionSet.options) :
                      toLowerCase(optionSet.options[k]) = toLowerCase(args.selectedOption)}
        option == optionSet.options[CHOOSE k \in optHits : \A j \in optHits : k <= j]
    IN  IF ~Includes(searchResults, args.menuItemId)
        THEN [NoResult EXCEPT !.error = "Item not found in search results. Please search again."]
        ELSE IF sets = <<>>
        THEN [NoResult EXCEPT !.error = "Item has no options."]
        ELSE IF setHits = {}
        THEN [NoResult EXCEPT !.error = "Option Set not found. Available sets:",
                              !.available = <<[k \in 1..Len(sets) |-> sets[k].optionSetId]>>]
        ELSE IF optHits = {}
        THEN [NoResult EXCEPT !.error = "Option not found in set. Available options:",
                              !.available = <<optionSet.options>>]
        ELSE [NoResult EXCEPT !.status = 200,
                              !.verified = <<optionSet.optionSetId, option>>]

Quantity_AsGiven(args) == args.quantity

\* args.quantity || 1
Quantity(args) == IF args.quantity # 0 THEN args.quantity ELSE 1

invalidMenuItemId_Never(searchResults, menuItemId) == FALSE

\* validIds.length > 0 && !validIds.includes(args.menuItemId)
invalidMenuItemId(searchResults, menuItemId) ==
    searchResults # <<>> /\ ~Includes(searchResults, menuItemId)

executeTool(name, args, token, searchResults, basket, calls) ==
    CASE name = "search_menu" ->
            {IF o.thrown THEN o
             ELSE Returned([NoResult EXCEPT !.status = 200,
                                            !.dataItems = o.result.items],
                           o.basket, o.calls) : o \in searchMenu(basket, calls)}
      [] name = "show_items" ->
            {Returned(showItems(args, searchResults), basket, calls)}
      [] name = "verify_option_selection" ->
            {Returned(verifyOptionSelection(args, searchResults), basket, calls)}
      [] name = "add_to_basket" ->
            IF invalidMenuItemId(searchResults, args.menuItemId)
            THEN {Returned([NoResult EXCEPT !.error = "Invalid menuItemId. Valid IDs:",
                                            !.validIds = <<searchResults>>],
                           basket, calls)}
            ELSE updateBasketAdd(basket, calls, args.menuItemId, Quantity(args))
      [] name = "remove_from_basket" ->
            UNION {
                IF g.thrown THEN {g}
                ELSE IF /\ args.menuItemId \in BasketLines(basket)
                        /\ basket[args.menuItemId] <= Quantity(args)
                        /\ Cardinality(BasketLines(basket)) = 1
                     THEN {IF c.thrown THEN c
                           ELSE Returned([NoResult EXCEPT !.status = 200,
                                                          !.message = "Basket cleared"],
                                         c.basket, c.calls) :
                             c \in clearBasket(basket, g.calls)}
                     ELSE updateBasketRemove(basket, g.calls, args.menuItemId,
                                             Quantity(args))
                : g \in getBasket(basket, calls)}
      [] name = "clear_basket" ->
            {IF c.thrown THEN c
             ELSE Returned([NoResult EXCEPT !.status = 200,
                                            !.message = "Basket cleared"],
                           c.basket, c.calls) : c \in clearBasket(basket, calls)}
      [] name = "submit_order" ->
            IF token = NoStr
            THEN {Returned([NoResult EXCEPT !.error = "AUTHENTICATION_REQUIRED",
                                            !.message = "Please sign in to place your order."],
                           basket, calls)}
            ELSE {IF s.thrown THEN Thrown(s.error, s.basket, s.calls)
                  ELSE IF s.order.success
                  THEN Returned([NoResult EXCEPT !.status = 200,
                                                 !.orderId = s.order.orderId,
                                                 !.leadTimePrompt = s.order.leadTimePrompt],
                                s.basket, s.calls)
                  ELSE Thrown([NewError(IF s.order.error # NoStr
                                        THEN s.order.error ELSE "Order failed")
                                 EXCEPT !.signal = s.order.errorCode],
                              s.basket, s.calls) : s \in submitOrder(basket, calls)}
      [] OTHER ->
            {Returned([NoResult EXCEPT !.error = "Unknown tool"], basket, calls)}

\* ------------------------------------------------------------------------
\* State
\* ------------------------------------------------------------------------
VARIABLES
    messages,   \* FlipDishProvider: the persisted message list
    token,      \* FlipDishProvider: the auth token, NoStr when signed out
    basket,     \* backend: quantity per menu item of the session's basket
    turn,       \* number of turns started
    pc,         \* position of the turn in flight
    sm,         \* sendMessage: captured messages and newMessages
    request,    \* chat(): the ChatRequest (messages is the caller's array)
    local,      \* chat(): its local variables
    response,   \* chat(): the ChatResponse, <<>> until it returns
    obs,        \* per-turn observations: calls made, branch taken
    faults,     \* gateway and completion calls that failed so far
    isLoading,  \* FlipDishProvider: a sendMessage is running
    inFlight,   \* sendMessage calls started and not yet settled
    prov,       \* FlipDishProvider: session initialisation, cookies, refs
    orderCall   \* flipdishApi.submitOrder in direct mode: one call's progress

vars == <<messages, token, basket, turn, pc, sm, request, local, response, obs,
          faults, isLoading, inFlight, prov, orderCall>>

SystemPrompt == Msg("system", TextContent(<<"You are a food ordering assistant.">>))

NoMsg == Msg("none", TextContent(<<>>))

\* The value `undefined` where a message was expected.
UndefinedMsg == Msg("undefined", TextContent(<<>>))

LocalInit ==
    [basket |-> <<>>, modelMessages |-> <<>>, searchResults |-> <<>>,
     responseMessage |-> NoMsg, toolCalls |-> <<>>, functionMessages |-> <<>>,
     idx |-> 0, searchMenuCalled |-> FALSE, showItemsCalled |-> FALSE,
     newSearchResults |-> <<>>, orderSubmitted |-> FALSE, orderId |-> NoStr,
     leadTimePrompt |-> <<>>]

ObsInit ==
    [completionCalls |-> 0, gw |-> NoCalls, executed |-> 0,
     intercepted |-> FALSE, injected |-> FALSE, terminal |-> FALSE,
     order |-> <<>>, sent |-> <<>>, basketAtEntry |-> EmptyBasket,
     thrownBy |-> NoStr, finalText |-> <<>>, refreshRead |-> "none",
     signals |-> <<>>]

Flag(b) == IF b THEN "true" ELSE "false"

Response(message) ==
    [message |-> message, toolCalls |-> <<>>, allMessages |-> <<>>,
     authRequired |-> "unset", tokenExpired |-> "unset",
     orderSubmitted |-> "unset", orderId |-> NoStr, leadTimePrompt |-> <<>>]

Assistant(text) == Msg("assistant", TextContent(text))

IsInitId(id) == id < 0

\* No submitOrder call of the direct mode is being followed.
NoOrderCall ==
    [pc |-> "none", paymentAccountId |-> 0, accounts |-> <<>>, accountId |-> 0,
     paymentAccountsCalls |-> 0, posted |-> <<>>, clearBasketCalls |-> 0,
     success |-> FALSE, errorCode |-> NoStr]

\* One run of the provider's init(): the step it waits at, the token and
\* validStoredSession its closure holds, whether the session result
\* brought a basket, and what the run did so far.
NewRun(tok, validStoredSession) ==
    [ipc |-> "createSession", token |-> tok, stored |-> validStoredSession,
     initialBasket |-> FALSE, createSession |-> 0, cleared |-> 0,
     contextExpired |-> FALSE, paymentToken |-> NoStr]

\* FlipDishProvider's state besides messages, token and isLoading: the
\* flags, the ref, the session id, the cookies, the configuration, the init
\* runs started since the mount, and counters of what happened.
ProvUnmounted(storedSession, authCookie, initialSearch) ==
    [mounted |-> FALSE, isInitialized |-> FALSE, initializingRef |-> FALSE,
     sessionId |-> NoStr,
     cookies |-> [session |-> storedSession, auth |-> authCookie],
     initialSearch |-> initialSearch,
     runs |-> <<>>, failures |-> 0, added |-> 0, addedInFlight |-> FALSE,
     reloads |-> 0, placeholders |-> FALSE]

\* The provider after an initialisation that succeeded at every step,
\* without a stored session, an auth cookie or an initial search.
ProvReady ==
    [ProvUnmounted(FALSE, FALSE, FALSE) EXCEPT
        !.mounted = TRUE, !.isInitialized = TRUE, !.initializingRef = TRUE,
        !.sessionId = "chat", !.cookies.session = TRUE,
        !.runs = <<[NewRun(NoStr, FALSE) EXCEPT !.ipc = "done",
                                               !.createSession = 1]>>]

Init ==
    /\ messages = <<SystemPrompt>>
    /\ token \in {NoStr, "token"}
    /\ basket \in {b \in [MenuItemIds -> 0..MaxQty] : b[1] + b[2] <= MaxQty /\ b[2] <= 1}
    /\ turn = 0
    /\ pc = "idle"
    /\ sm = [messages |-> <<>>, newMessages |-> <<>>]
    /\ request = [messages |-> <<>>, token |-> NoStr]
    /\ local = LocalInit
    /\ response = <<>>
    /\ obs = ObsInit
    /\ faults = 0
    /\ isLoading = FALSE
    /\ inFlight = 0
    /\ prov = ProvReady
    /\ orderCall = NoOrderCall

\* A gateway or completion call fails: at most MaxFaults of them do in one
\* conversation.
Fault(happened) ==
    /\ happened => faults < MaxFaults
    /\ faults' = IF happened THEN faults + 1 ELSE faults

\* sendMessage: newMessages without the placeholder messages of the initial
\* search (tool-call ids starting with call_init_).
apiMessages(newMessages) ==
    LET NotDummy(msg) ==
            /\ ~\E k \in 1..Len(msg.tool_calls) : IsInitId(msg.tool_calls[k].id)
            /\ ~IsInitId(msg.tool_call_id)
    IN  Filter(newMessages, NotDummy)

handleSendGuard_NoLoading(input, loading) == input # <<>>

\* FlipDishChat.handleSend: if (!input.trim() || isLoading) return;
handleSendGuard(input, loading) == input # <<>> /\ ~loading

\* ------------------------------------------------------------------------
\* FlipDishChat.handleSend and FlipDishProvider.sendMessage, up to the call
\* of chatbotService.chat.  The handler reads the isLoading of the last
\* render; sendMessage sets it before its first await, inside the submit
\* event, so the next event is handled with the new value.
\* ------------------------------------------------------------------------
SendMessage ==
    /\ turn < MaxTurns
    /\ prov.isInitialized
    /\ prov.sessionId # NoStr
    /\ \E text \in UserTexts :
        LET userMessage == Msg("user", TextContent(text))
            newMessages == Append(messages, userMessage)
        IN  /\ handleSendGuard(text, isLoading)
            /\ sm' = [messages |-> messages, newMessages |-> newMessages]
            /\ messages' = newMessages
            /\ request' = [messages |-> apiMessages(newMessages), token |-> token]
    /\ turn' = turn + 1
    /\ pc' = "loadBasketContext"
    /\ local' = LocalInit
    /\ response' = <<>>
    /\ obs' = [ObsInit EXCEPT !.basketAtEntry = basket]
    /\ isLoading' = TRUE
    /\ inFlight' = inFlight + 1
    /\ UNCHANGED <<token, basket, faults, prov, orderCall>>

\* ------------------------------------------------------------------------
\* ChatbotService.chat
\* ------------------------------------------------------------------------
\* loadBasketContext: the basket and its context message, both null when
\* getBasket throws.
loadBasketContext(bk, calls) ==
    {[message |-> IF g.thrown THEN <<>> ELSE <<formatBasketContext(g.result.basket[1])>>,
      basket |-> IF g.thrown THEN <<>> ELSE g.result.basket,
      calls |-> g.calls] : g \in getBasket(bk, calls)}

\* if (!basket || !basket.basketMenuItems || basket.basketMenuItems.length === 0)
basketIsEmpty_NullOnly(bk) == bk = <<>>

basketIsEmpty(bk) == bk = <<>> \/ BasketLines(bk[1]) = {}

\* From the entry of chat() to its first completion call or to the checkout
\* interceptor's decision.
ChatLoadBasketContext ==
    /\ pc = "loadBasketContext"
    /\ \E ctx \in loadBasketContext(basket, obs.gw) :
        LET inserted == insertContextMessage(request.messages, ctx.message)
            modelMessages == inserted.returned
            searchResults == extractSearchResultsFromHistory(inserted.messages)
            lastUserMessage == getLastUserMessage(inserted.messages)
            intent == lastUserMessage.found /\ isCheckoutIntent(lastUserMessage.text)
            l == [local EXCEPT !.basket = ctx.basket,
                               !.modelMessages = modelMessages,
                               !.searchResults = searchResults]
            o == [obs EXCEPT !.gw = ctx.calls, !.intercepted = intent]
        IN  /\ Fault(ctx.message = <<>>)
            /\ local' = l
            /\ obs' = o
            /\ request' = [request EXCEPT !.messages = inserted.messages]
            /\ IF ~intent
               THEN pc' = "round1" /\ response' = response
               ELSE IF request.token = NoStr
               THEN /\ pc' = "returned"
                    /\ response' = <<[Response(Assistant(<<>>)) EXCEPT
                                        !.authRequired = "true",
                                        !.tokenExpired = "false"]>>
               ELSE IF basketIsEmpty(ctx.basket)
               THEN /\ pc' = "returned"
                    /\ response' = <<Response(Assistant(BasketEmptyText))>>
               ELSE pc' = "checkoutSubmit" /\ response' = response
    /\ UNCHANGED <<messages, token, basket, turn, sm, isLoading, inFlight, prov, orderCall>>

\* The confirmation text of the checkout interceptor.
checkoutConfirmation(result) ==
    IF result.leadTimePrompt # <<>>
    THEN normalizeLeadTimePrompt(result.leadTimePrompt)
    ELSE IF result.orderId # NoStr THEN ThanksWithId(result.orderId)
    ELSE <<>>

\* Checkout interceptor: flipdishApi.submitOrder called directly.
ChatCheckoutSubmit ==
    /\ pc = "checkoutSubmit"
    /\ \E s \in submitOrder(basket, obs.gw) :
        /\ Fault(s.thrown)
        /\ basket' = s.basket
        /\ IF s.thrown
           THEN /\ pc' = "threw"
                /\ response' = response
                /\ obs' = [obs EXCEPT !.gw = s.calls]
           ELSE /\ pc' = "returned"
                /\ obs' = [obs EXCEPT !.gw = s.calls, !.order = <<s.order>>]
                /\ response' =
                     IF ~s.order.success
                     THEN <<Response(Assistant(IF s.order.error # NoStr
                                               THEN <<s.order.error>>
                                               ELSE OrderFailedText))>>
                     ELSE <<[Response(Assistant(checkoutConfirmation(s.order))) EXCEPT
                               !.orderSubmitted = "true",
                               !.orderId = s.order.orderId,
                               !.leadTimePrompt = s.order.leadTimePrompt]>>
    /\ UNCHANGED <<messages, token, turn, sm, request, local, isLoading, inFlight, prov, orderCall>>

\* The tool calls of a round-1 answer, with the ids the endpoint gave them.
WithIds(calls, t) == [k \in 1..Len(calls) |-> [calls[k] EXCEPT !.id = 10 * t + k]]

\* Round 1: the first completion call and, when it asks for no tool, the
\* direct answer.
ChatRound1 ==
    /\ pc = "round1"
    /\ \/ /\ pc' = "threw"
          /\ Fault(TRUE)
          /\ obs' = [obs EXCEPT !.completionCalls = @ + 1, !.sent = local.modelMessages]
          /\ UNCHANGED <<local, response>>
       \/ \E text \in {<<>>, <<"Sure">>} :
            /\ pc' = "returned"
            /\ Fault(FALSE)
            /\ obs' = [obs EXCEPT !.completionCalls = @ + 1, !.sent = local.modelMessages]
            /\ local' = [local EXCEPT !.responseMessage = Assistant(text)]
            /\ response' = <<Response(Assistant(text))>>
       \/ \E calls \in ToolCallLists(MaxCalls - RequestedCalls(request.messages)) :
            LET responseMessage == [Assistant(<<>>) EXCEPT !.tool_calls = WithIds(calls, turn)]
            IN  /\ pc' = "dispatch"
                /\ Fault(FALSE)
                /\ obs' = [obs EXCEPT !.completionCalls = @ + 1, !.sent = local.modelMessages]
                /\ local' = [local EXCEPT !.responseMessage = responseMessage,
                                          !.toolCalls = responseMessage.tool_calls,
                                          !.functionMessages =
                                              newFunctionMessages(request.messages,
                                                                  responseMessage),
                                          !.idx = 1]
                /\ response' = response
    /\ UNCHANGED <<messages, token, basket, turn, sm, request, isLoading, inFlight, prov, orderCall>>

ToolMessage_Unlabelled(toolCallId, result) == Msg("tool", JSONstringify(result))

\* functionMessages.push({ role: 'tool', tool_call_id: toolCall.id, content })
ToolMessage(toolCallId, result) ==
    [Msg("tool", JSONstringify(result)) EXCEPT !.tool_call_id = toolCallId]

\* if (searchMenuCalled && !showItemsCalled && newSearchResults.length > 0)
shouldAutoInject(l) ==
    l.searchMenuCalled /\ ~l.showItemsCalled /\ l.newSearchResults # <<>>

syntheticToolCall(newSearchResults) ==
    [id |-> AutoShowItemsId, name |-> "show_items",
     args |-> [NoArgs EXCEPT !.menuItemIds = newSearchResults], parses |-> TRUE]

\* Auto-injection of show_items after the dispatch loop.
autoInject(l) ==
    IF shouldAutoInject(l)
    THEN LET call == syntheticToolCall(l.newSearchResults)
             calls == Append(l.toolCalls, call)
             injected == ToolMessage(call.id,
                            [NoResult EXCEPT !.status = 200,
                                             !.displayType = "menu_cards",
                                             !.items = <<l.newSearchResults>>])
         IN  [l EXCEPT !.toolCalls = calls,
                       !.responseMessage.tool_calls = calls,
                       !.functionMessages =
                           Append([l.functionMessages EXCEPT
                                      ![Len(request.messages) + 1].tool_calls = calls],
                                  injected)]
    ELSE l

\* toolCalls.some(call => call.function.name === 'submit_order')
submittedOrderCall(toolCalls) ==
    \E k \in 1..Len(toolCalls) : toolCalls[k].name = "submit_order"

isTerminal_NoSubmit(l) ==
    \/ checkAuthStatus(l.functionMessages).authRequired
    \/ checkAuthStatus(l.functionMessages).tokenExpired

\* if (authRequired || tokenExpired || submittedOrderCall)
isTerminal(l) ==
    \/ checkAuthStatus(l.functionMessages).authRequired
    \/ checkAuthStatus(l.functionMessages).tokenExpired
    \/ submittedOrderCall(l.toolCalls)

allMessagesOf_Delta(given, functionMessages, finalMessage) ==
    Append(SubSeq(functionMessages, Len(given) + 1, Len(functionMessages)),
           finalMessage)

\* allMessages: [...functionMessages, finalMessage]
allMessagesOf(given, functionMessages, finalMessage) ==
    Append(functionMessages, finalMessage)

\* The response of a turn that ends after the dispatch loop.
terminalResponse(given, l) ==
    LET orderConfirmation == buildOrderConfirmation(l.functionMessages)
        finalMessage == Assistant(orderConfirmation)
        auth == checkAuthStatus(l.functionMessages)
    IN  [message |-> finalMessage, toolCalls |-> <<l.toolCalls>>,
         allMessages |-> <<allMessagesOf(given, l.functionMessages, finalMessage)>>,
         authRequired |-> Flag(auth.authRequired),
         tokenExpired |-> Flag(auth.tokenExpired),
         orderSubmitted |-> Flag(l.orderSubmitted),
         orderId |-> l.orderId, leadTimePrompt |-> l.leadTimePrompt]

orderWasSubmitted_AnySubmit(functionName, thrown, result) ==
    functionName = "submit_order"

\* if (functionName === 'submit_order' && result?.status === 200)
orderWasSubmitted(functionName, thrown, result) ==
    ~thrown /\ functionName = "submit_order" /\ result.status = 200

trackSearchResults_Keep(functionName, thrown, result, searchResults) == searchResults

\* if (functionName === 'search_menu' && result.data?.items)
\*     searchResults = result.data.items
trackSearchResults(functionName, thrown, result, searchResults) ==
    IF ~thrown /\ functionName = "search_menu" /\ result.dataItems # <<>>
    THEN result.dataItems[1]
    ELSE searchResults

\* One iteration of the dispatch loop; after the last one, auto-injection
\* and the terminal-state classification.
ChatDispatch ==
    /\ pc = "dispatch"
    /\ LET toolCall == local.toolCalls[local.idx]
           functionName == toolCall.name
       IN  \* const functionArgs = JSON.parse(toolCall.function.arguments)
           IF ~toolCall.parses
           THEN /\ pc' = "threw"
                /\ UNCHANGED <<basket, local, obs, response, faults>>
           ELSE
           \E o \in executeTool(functionName, toolCall.args, request.token,
                               local.searchResults, basket, obs.gw) :
            LET result == IF o.thrown THEN handleToolError(o.error) ELSE o.result
                tracked == ~o.thrown /\ functionName = "search_menu"
                           /\ result.dataItems # <<>>
                submitted == orderWasSubmitted(functionName, o.thrown, result)
                l1 == [local EXCEPT
                        !.searchMenuCalled = @ \/ functionName = "search_menu",
                        !.showItemsCalled = @ \/ functionName = "show_items",
                        !.newSearchResults = IF tracked THEN result.dataItems[1] ELSE @,
                        !.searchResults = trackSearchResults(functionName, o.thrown, result, @),
                        !.orderSubmitted = @ \/ submitted,
                        !.orderId = IF submitted THEN result.orderId ELSE @,
                        !.leadTimePrompt = IF submitted THEN result.leadTimePrompt ELSE @,
                        !.functionMessages = Append(@, ToolMessage(toolCall.id, result)),
                        !.idx = @ + 1]
                last == local.idx = Len(local.toolCalls)
                l2 == IF last THEN autoInject(l1) ELSE l1
                o1 == [obs EXCEPT
                        !.gw = o.calls, !.executed = @ + 1,
                        !.thrownBy = IF o.thrown THEN o.error.cap ELSE NoStr,
                        !.signals = Append(@, IF o.thrown THEN o.error.signal ELSE NoStr),
                        !.order = IF functionName = "submit_order" /\ request.token # NoStr
                                  THEN <<[success |-> submitted, orderId |-> result.orderId,
                                          leadTimePrompt |-> result.leadTimePrompt,
                                          error |-> NoStr, errorCode |-> NoStr]>>
                                  ELSE @,
                        !.injected = last /\ shouldAutoInject(l1),
                        !.terminal = last /\ isTerminal(l2)]
            IN  /\ Fault(IF o.thrown THEN o.error.api ELSE ~o.result.defined)
                /\ basket' = o.basket
                /\ local' = l2
                /\ obs' = o1
                /\ IF ~last THEN pc' = "dispatch" /\ response' = response
                   ELSE IF isTerminal(l2)
                   THEN pc' = "returned" /\ response' = <<terminalResponse(request.messages, l2)>>
                   ELSE pc' = "refreshBasketContext" /\ response' = response
    /\ UNCHANGED <<messages, token, turn, sm, request, isLoading, inFlight, prov, orderCall>>

refreshedBasketContext_Reused(l, bk, calls) ==
    {[message |-> SelectSeq(l.modelMessages,
                            LAMBDA m : m.role = "system" /\ m.content.kind = "context"),
      basket |-> l.basket, calls |-> calls]}

\* const { message: refreshedBasketContext } =
\*     await this.loadBasketContext(chatId, token)
refreshedBasketContext(l, bk, calls) == loadBasketContext(bk, calls)

\* The second loadBasketContext, made before round 2.
ChatRefreshBasketContext ==
    /\ pc = "refreshBasketContext"
    /\ \E ctx \in refreshedBasketContext(local, basket, obs.gw) :
        LET inserted == insertContextMessage(local.functionMessages, ctx.message)
        IN  /\ Fault(ctx.message = <<>>)
            /\ local' = [local EXCEPT !.modelMessages = inserted.returned,
                                      !.functionMessages = inserted.messages]
            /\ obs' = [obs EXCEPT !.gw = ctx.calls,
                                  !.refreshRead = IF ctx.message = <<>>
                                                  THEN "failed" ELSE "ok"]
    /\ pc' = "round2"
    /\ UNCHANGED <<messages, token, basket, turn, sm, request, response, isLoading, inFlight, prov, orderCall>>

finalContent_EmptyOnly(text, orderConfirmation) ==
    IF text = <<>> /\ orderConfirmation # <<>> THEN orderConfirmation ELSE text

\* The final text of round 2: the model's, or the synthesized confirmation
\* when the model's is empty or blank.
finalContent(text, orderConfirmation) ==
    IF DropLeading(text, "s") = <<>> /\ orderConfirmation # <<>>
    THEN orderConfirmation
    ELSE text

\* Round 2: the second completion call (no tools offered) and the response.
ChatRound2 ==
    /\ pc = "round2"
    /\ \/ /\ pc' = "threw"
          /\ Fault(TRUE)
          /\ response' = response
          /\ obs' = [obs EXCEPT !.completionCalls = @ + 1, !.sent = local.modelMessages]
       \/ \E text \in AssistantTexts :
            LET finalMessage ==
                    Assistant(finalContent(text, buildOrderConfirmation(local.functionMessages)))
                auth == checkAuthStatus(local.functionMessages)
            IN  /\ pc' = "returned"
                /\ Fault(FALSE)
                /\ obs' = [obs EXCEPT !.completionCalls = @ + 1,
                                      !.sent = local.modelMessages,
                                      !.finalText = text]
                /\ response' =
                     <<[message |-> finalMessage, toolCalls |-> <<local.toolCalls>>,
                        allMessages |-> <<allMessagesOf(request.messages,
                                                        local.functionMessages,
                                                        finalMessage)>>,
                        authRequired |-> Flag(auth.authRequired),
                        tokenExpired |-> Flag(auth.tokenExpired),
                        orderSubmitted |-> Flag(local.orderSubmitted),
                        orderId |-> local.orderId,
                        leadTimePrompt |-> local.leadTimePrompt]>>
    /\ UNCHANGED <<messages, token, basket, turn, sm, request, local, isLoading, inFlight, prov, orderCall>>

\* ------------------------------------------------------------------------
\* FlipDishProvider.sendMessage, after chatbotService.chat settled
\* ------------------------------------------------------------------------
\* messages[0]: undefined when the array is empty.
ElementZero(ms) == IF ms = <<>> THEN UndefinedMsg ELSE ms[1]

SendMessageReturn ==
    /\ pc = "returned"
    /\ LET r == response[1]
           NotSystem(m) == m.role # "system"
       IN  messages' =
             IF r.allMessages # <<>>
             THEN <<ElementZero(sm.messages)>> \o Filter(r.allMessages[1], NotSystem)
             ELSE Append(sm.newMessages, r.message)
    /\ pc' = "idle"
    /\ sm' = [messages |-> <<>>, newMessages |-> <<>>]
    /\ request' = [messages |-> <<>>, token |-> NoStr]
    /\ local' = LocalInit
    /\ response' = <<>>
    /\ obs' = ObsInit
    /\ isLoading' = FALSE
    /\ inFlight' = inFlight - 1
    /\ UNCHANGED <<token, basket, turn, faults, prov, orderCall>>

SendMessageThrow ==
    /\ pc = "threw"
    /\ pc' = "idle"
    /\ sm' = [messages |-> <<>>, newMessages |-> <<>>]
    /\ request' = [messages |-> <<>>, token |-> NoStr]
    /\ local' = LocalInit
    /\ response' = <<>>
    /\ obs' = ObsInit
    /\ isLoading' = FALSE
    /\ inFlight' = inFlight - 1
    /\ UNCHANGED <<messages, token, basket, turn, faults, prov, orderCall>>

Next ==
    \/ SendMessage
    \/ ChatLoadBasketContext
    \/ ChatCheckoutSubmit
    \/ ChatRound1
    \/ ChatDispatch
    \/ ChatRefreshBasketContext
    \/ ChatRound2
    \/ SendMessageReturn
    \/ SendMessageThrow

Spec == Init /\ [][Next]_vars

\* ------------------------------------------------------------------------
\* ChatbotService.chat of src/api/chatbot.ts: no checkout interceptor, no
\* verify_option_selection tool, a get_basket_summary tool, and a second
\* completion call after every round of tool calls
\* ------------------------------------------------------------------------
ToolMenuV1 ==
    {ToolCall("search_menu", NoArgs),
     ToolCall("get_basket_summary", NoArgs),
     ToolCall("submit_order", NoArgs),
     [ToolCall("search_menu", NoArgs) EXCEPT !.parses = FALSE]}

ToolCallListsV1(n) == UNION {[1..k -> ToolMenuV1] : k \in 1..n}

\* The cases of executeTool that differ from chat()'s newer executeTool; the
\* other cases are the same code.
executeToolV1(name, args, tk, searchResults, bk, calls) ==
    CASE name = "get_basket_summary" ->
            {IF g.thrown THEN g
             ELSE Returned([NoResult EXCEPT !.status = 200,
                                            !.basket = g.result.basket],
                           g.basket, g.calls) : g \in getBasket(bk, calls)}
      [] name = "verify_option_selection" ->
            {Returned([NoResult EXCEPT !.error = "Unknown tool"], bk, calls)}
      [] OTHER -> executeTool(name, args, tk, searchResults, bk, calls)

handleToolErrorV1(error) ==
    IF error.api
    THEN IF error.errorCode = "TOKEN_EXPIRED"
         THEN [NoResult EXCEPT !.error = "TOKEN_EXPIRED",
                               !.message = "Your session has expired. Please sign in again."]
         ELSE IF error.message = "closed"
         THEN [NoResult EXCEPT !.error = "RESTAURANT_CLOSED",
                               !.message = "The restaurant is currently closed."]
         ELSE [NoResult EXCEPT !.error = IF error.userMessage # NoStr
                                         THEN error.userMessage ELSE error.message]
    ELSE IF error.message = "AUTHENTICATION_REQUIRED"
    THEN [NoResult EXCEPT !.error = "AUTHENTICATION_REQUIRED",
                          !.message = "Please sign in to place your order."]
    ELSE [NoResult EXCEPT !.error = error.message]

\* buildBasketContextMessage: the context message, null when getBasket throws.
buildBasketContextMessage(bk, calls) ==
    {[message |-> IF g.thrown THEN <<>> ELSE <<formatBasketContext(g.result.basket[1])>>,
      calls |-> g.calls] : g \in getBasket(bk, calls)}

\* From the entry of chat() to its first completion call.
ChatBuildBasketContextV1 ==
    /\ pc = "loadBasketContext"
    /\ \E ctx \in buildBasketContextMessage(basket, obs.gw) :
        LET inserted == insertContextMessage(request.messages, ctx.message)
        IN  /\ Fault(ctx.message = <<>>)
            /\ local' = [local EXCEPT
                            !.modelMessages = inserted.returned,
                            !.searchResults =
                                extractSearchResultsFromHistory(inserted.messages)]
            /\ obs' = [obs EXCEPT !.gw = ctx.calls]
            /\ request' = [request EXCEPT !.messages = inserted.messages]
    /\ pc' = "round1"
    /\ UNCHANGED <<messages, token, basket, turn, sm, response, isLoading, inFlight, prov, orderCall>>

\* Round 1: the first completion call and, when it asks for no tool, the
\* direct answer.
ChatRound1V1 ==
    /\ pc = "round1"
    /\ \/ /\ pc' = "threw"
          /\ Fault(TRUE)
          /\ obs' = [obs EXCEPT !.completionCalls = @ + 1, !.sent = local.modelMessages]
          /\ UNCHANGED <<local, response>>
       \/ \E text \in {<<>>, <<"Sure">>} :
            /\ pc' = "returned"
            /\ Fault(FALSE)
            /\ obs' = [obs EXCEPT !.completionCalls = @ + 1, !.sent = local.modelMessages]
            /\ local' = [local EXCEPT !.responseMessage = Assistant(text)]
            /\ response' = <<Response(Assistant(text))>>
       \/ \E calls \in ToolCallListsV1(MaxCalls - RequestedCalls(request.messages)) :
            LET responseMessage == [Assistant(<<>>) EXCEPT !.tool_calls = WithIds(calls, turn)]
            IN  /\ pc' = "dispatch"
                /\ Fault(FALSE)
                /\ obs' = [obs EXCEPT !.completionCalls = @ + 1, !.sent = local.modelMessages]
                /\ local' = [local EXCEPT !.responseMessage = responseMessage,
                                          !.toolCalls = responseMessage.tool_calls,
                                          !.functionMessages =
                                              newFunctionMessages(request.messages,
                                                                  responseMessage),
                                          !.idx = 1]
                /\ response' = response
    /\ UNCHANGED <<messages, token, basket, turn, sm, request, isLoading, inFlight, prov, orderCall>>

\* One iteration of the dispatch loop; after the last one, auto-injection.
\* The second completion round follows in every case.
ChatDispatchV1 ==
    /\ pc = "dispatch"
    /\ LET toolCall == local.toolCalls[local.idx]
           functionName == toolCall.name
       IN  \* const functionArgs = JSON.parse(toolCall.function.arguments)
           IF ~toolCall.parses
           THEN /\ pc' = "threw"
                /\ UNCHANGED <<basket, local, obs, faults>>
           ELSE
           \E o \in executeToolV1(functionName, toolCall.args, request.token,
                                 local.searchResults, basket, obs.gw) :
            LET result == IF o.thrown THEN handleToolErrorV1(o.error) ELSE o.result
                tracked == ~o.thrown /\ functionName = "search_menu"
                           /\ result.dataItems # <<>>
                submitted == orderWasSubmitted(functionName, o.thrown, result)
                l1 == [local EXCEPT
                        !.searchMenuCalled = @ \/ functionName = "search_menu",
                        !.showItemsCalled = @ \/ functionName = "show_items",
                        !.newSearchResults = IF tracked THEN result.dataItems[1] ELSE @,
                        !.searchResults = IF tracked THEN result.dataItems[1] ELSE @,
                        !.orderSubmitted = @ \/ submitted,
                        !.orderId = IF submitted THEN result.orderId ELSE @,
                        !.leadTimePrompt = IF submitted THEN result.leadTimePrompt ELSE @,
                        !.functionMessages = Append(@, ToolMessage(toolCall.id, result)),
                        !.idx = @ + 1]
                last == local.idx = Len(local.toolCalls)
                l2 == IF last THEN autoInject(l1) ELSE l1
            IN  /\ Fault(IF o.thrown THEN o.error.api ELSE ~o.result.defined)
                /\ basket' = o.basket
                /\ local' = l2
                /\ obs' = [obs EXCEPT
                            !.gw = o.calls, !.executed = @ + 1,
                            !.thrownBy = IF o.thrown THEN o.error.cap ELSE NoStr,
                            !.signals = Append(@, IF o.thrown THEN o.error.signal
                                                  ELSE NoStr),
                            !.order = IF functionName = "submit_order"
                                         /\ request.token # NoStr
                                      THEN <<[success |-> submitted,
                                              orderId |-> result.orderId,
                                              leadTimePrompt |-> result.leadTimePrompt,
                                              error |-> NoStr, errorCode |-> NoStr]>>
                                      ELSE @,
                            !.injected = last /\ shouldAutoInject(l1)]
                /\ pc' = IF last THEN "refreshBasketContext" ELSE "dispatch"
    /\ UNCHANGED <<messages, token, turn, sm, request, response, isLoading, inFlight, prov, orderCall>>

\* The second buildBasketContextMessage, made before round 2.
ChatRefreshBasketContextV1 ==
    /\ pc = "refreshBasketContext"
    /\ \E ctx \in buildBasketContextMessage(basket, obs.gw) :
        LET inserted == insertContextMessage(local.functionMessages, ctx.message)
        IN  /\ Fault(ctx.message = <<>>)
            /\ local' = [local EXCEPT !.modelMessages = inserted.returned,
                                      !.functionMessages = inserted.messages]
            /\ obs' = [obs EXCEPT !.gw = ctx.calls]
    /\ pc' = "round2"
    /\ UNCHANGED <<messages, token, basket, turn, sm, request, response, isLoading, inFlight, prov, orderCall>>

\* Round 2: the second completion call (no tools offered), then the
\* confirmation fallback, checkAuthStatus and the response.
ChatRound2V1 ==
    /\ pc = "round2"
    /\ \/ /\ pc' = "threw"
          /\ Fault(TRUE)
          /\ response' = response
          /\ obs' = [obs EXCEPT !.completionCalls = @ + 1, !.sent = local.modelMessages]
       \/ \E text \in {<<>>, <<"Sure">>} :
            LET finalMessage ==
                    Assistant(finalContent(text, buildOrderConfirmation(local.functionMessages)))
                auth == checkAuthStatus(local.functionMessages)
            IN  /\ pc' = "returned"
                /\ Fault(FALSE)
                /\ obs' = [obs EXCEPT !.completionCalls = @ + 1,
                                      !.sent = local.modelMessages,
                                      !.finalText = text]
                /\ response' =
                     <<[message |-> finalMessage, toolCalls |-> <<local.toolCalls>>,
                        allMessages |-> <<allMessagesOf(request.messages,
                                                        local.functionMessages,
                                                        finalMessage)>>,
                        authRequired |-> Flag(auth.authRequired),
                        tokenExpired |-> Flag(auth.tokenExpired),
                        orderSubmitted |-> Flag(local.orderSubmitted),
                        orderId |-> local.orderId,
                        leadTimePrompt |-> local.leadTimePrompt]>>
    /\ UNCHANGED <<messages, token, basket, turn, sm, request, local, isLoading, inFlight, prov, orderCall>>

NextV1 ==
    \/ SendMessage
    \/ ChatBuildBasketContextV1
    \/ ChatRound1V1
    \/ ChatDispatchV1
    \/ ChatRefreshBasketContextV1
    \/ ChatRound2V1
    \/ SendMessageReturn
    \/ SendMessageThrow

SpecV1 == Init /\ [][NextV1]_vars

\* ------------------------------------------------------------------------
\* The history helpers of ChatbotService (insertContextMessage,
\* extractSearchResultsFromHistory, checkAuthStatus, buildOrderConfirmation)
\* applied to the histories FlipDishProvider can hand to chat()
\* ------------------------------------------------------------------------
MaxHistory == 3

\* Contents of the tool messages of a history: JSON objects, the JSON text
\* "null", and text that is not JSON.
HistoryToolContents ==
    {JSONstringify([NoResult EXCEPT !.status = 200, !.dataItems = <<<<1, 2>>>>]),
     JSONstringify([NoResult EXCEPT !.status = 200, !.orderId = "o1"]),
     JSONstringify([NoResult EXCEPT !.error = "AUTHENTICATION_REQUIRED",
                                    !.message = "Please sign in to place your order."]),
     [kind |-> "null", text |-> <<>>, val |-> NoResult],
     TextContent(<<"Internal Server Error">>),
     TextContent(<<"error:", "TOKEN_EXPIRED">>),
     TextContent(<<"error:", "AUTHENTICATION_REQUIRED">>)}

HistoryMessages ==
    {Msg("user", TextContent(<<"show", "pizza">>)), Assistant(<<"Sure">>)}
    \cup {Msg("tool", c) : c \in HistoryToolContents}

\* The provider's list starts as [] and is set to [system prompt] by the
\* session initialisation; sendMessage keeps messages[0] and drops every
\* system message of allMessages: the system prompt is first or missing.
Histories(n) ==
    LET rest == UNION {[1..k -> HistoryMessages] : k \in 0..n}
    IN  rest \cup {<<SystemPrompt>> \o h : h \in rest}

InitHistory ==
    /\ messages \in Histories(MaxHistory)
    /\ token = NoStr
    /\ basket = EmptyBasket
    /\ turn = 0
    /\ pc = "history"
    /\ sm = [messages |-> <<>>, newMessages |-> <<>>]
    /\ request = [messages |-> messages, token |-> NoStr]
    /\ local = LocalInit
    /\ response = <<>>
    /\ obs = ObsInit
    /\ faults = 0
    /\ isLoading = FALSE
    /\ inFlight = 0
    /\ prov = ProvReady
    /\ orderCall = NoOrderCall

\* const modelMessages = this.insertContextMessage(messages, basketContext)
InsertContext ==
    /\ pc = "history"
    /\ \E context \in {<<>>, <<formatBasketContext(EmptyBasket)>>} :
        LET inserted == insertContextMessage(request.messages, context)
        IN  /\ local' = [local EXCEPT !.modelMessages = inserted.returned]
            /\ request' = [request EXCEPT !.messages = inserted.messages]
    /\ pc' = "inserted"
    /\ UNCHANGED <<messages, token, basket, turn, sm, response, obs, faults, isLoading, inFlight, prov, orderCall>>

\* The three scans of the history: the search cache, the auth flags and the
\* order confirmation (<<>> for null).
ScanHistory ==
    /\ pc = "history"
    /\ local' = [local EXCEPT
                    !.searchResults = extractSearchResultsFromHistory(request.messages)]
    /\ response' = <<[Response(Assistant(buildOrderConfirmation(request.messages))) EXCEPT
                        !.authRequired =
                            Flag(checkAuthStatus(request.messages).authRequired),
                        !.tokenExpired =
                            Flag(checkAuthStatus(request.messages).tokenExpired)]>>
    /\ pc' = "scanned"
    /\ UNCHANGED <<messages, token, basket, turn, sm, request, obs, faults, isLoading, inFlight, prov, orderCall>>

NextHistory ==
    \/ InsertContext
    \/ ScanHistory

SpecHistory == InitHistory /\ [][NextHistory]_vars

\* ------------------------------------------------------------------------
\* The dispatch loop of chat() and executeTool applied to the search result
\* caches and the show_items, verify_option_selection and add_to_basket
\* arguments the completion endpoint may give
\* ------------------------------------------------------------------------
MaxCache == 3
MaxIds == 3

\* The item ids a call may name: the menu's, and one that is on no menu.
RequestedIds == MenuItemIds \cup {3}

\* The searchResults parameter: the items of a search, by id.
SearchCaches(n) == UNION {[1..k -> MenuItemIds] : k \in 0..n}

ShowItemsCalls(n) ==
    {ToolCall("show_items", [NoArgs EXCEPT !.menuItemIds = ids]) :
        ids \in UNION {[1..k -> RequestedIds] : k \in 0..n}}

OptionSetNames == {"Choose your base", "choose your base", "Extras", "Size"}

OptionNames == {"Brown Rice", "brown rice", "Salad", "GUACAMOLE", "Fries"}

VerifyCalls ==
    {ToolCall("verify_option_selection",
              [NoArgs EXCEPT !.menuItemId = i, !.optionSetId = s,
                             !.selectedOption = o]) :
        i \in RequestedIds, s \in OptionSetNames, o \in OptionNames}

AddToBasketCalls ==
    {ToolCall("add_to_basket", [NoArgs EXCEPT !.menuItemId = i]) : i \in RequestedIds}

\* The tool-call lists of the round: one call, or a search_menu followed by
\* one call.
ToolInputs ==
    {ToolCall("search_menu", NoArgs)} \cup ShowItemsCalls(MaxIds) \cup VerifyCalls
        \cup AddToBasketCalls

ToolInputLists ==
    {<<c>> : c \in ToolInputs}
        \cup {<<ToolCall("search_menu", NoArgs), c>> : c \in ToolInputs}

\* The history of a conversation whose latest search returned the cache.
HistoryWithCache(cache) ==
    LET user == Msg("user", TextContent(<<"show", "pizza">>))
        search == [ToolCall("search_menu", NoArgs) EXCEPT !.id = 1]
    IN  IF cache = <<>> THEN <<SystemPrompt, user>>
        ELSE <<SystemPrompt, user,
               [Assistant(<<>>) EXCEPT !.tool_calls = <<search>>],
               ToolMessage(1, [NoResult EXCEPT !.status = 200,
                                               !.dataItems = <<cache>>]),
               Assistant(<<"Sure">>), user>>

\* chat() at the entry of its dispatch loop: the cache rebuilt from the
\* history, the tool calls of the first completion answer.
InitTools ==
    /\ token = "token"
    /\ basket = EmptyBasket
    /\ turn = 1
    /\ pc = "dispatch"
    /\ \E cache \in SearchCaches(MaxCache) :
       \E calls \in ToolInputLists :
          LET history == HistoryWithCache(cache)
              responseMessage == [Assistant(<<>>) EXCEPT !.tool_calls = WithIds(calls, 1)]
          IN  /\ messages = history
              /\ sm = [messages |-> SubSeq(history, 1, Len(history) - 1),
                       newMessages |-> history]
              /\ request = [messages |-> history, token |-> "token"]
              /\ local = [LocalInit EXCEPT
                            !.basket = <<EmptyBasket>>,
                            !.searchResults = extractSearchResultsFromHistory(history),
                            !.responseMessage = responseMessage,
                            !.toolCalls = responseMessage.tool_calls,
                            !.functionMessages =
                                newFunctionMessages(history, responseMessage),
                            !.idx = 1]
    /\ response = <<>>
    /\ obs = [ObsInit EXCEPT !.completionCalls = 1,
                             !.gw = Called(NoCalls, "getBasket")]
    /\ faults = 0
    /\ isLoading = TRUE
    /\ inFlight = 1
    /\ prov = ProvReady
    /\ orderCall = NoOrderCall

NextTools == ChatDispatch

SpecTools == InitTools /\ [][NextTools]_vars

\* ------------------------------------------------------------------------
\* FlipDishProvider: session initialisation (src/src/context), addMessage,
\* and chat turns whose chat() call is taken by its outcome
\* ------------------------------------------------------------------------
MaxInitFaults == 2

MaxRuns == 2

MaxAdded == 1

\* How a gateway call of init() settles: it resolves, it is rejected with
\* errorCode TOKEN_EXPIRED or statusCode 401 or 403, or it is rejected with
\* another error.
GatewayOutcomes == {"ok", "expired", "other"}

\* error.errorCode === 'TOKEN_EXPIRED' || error.statusCode === 401 ||
\* error.statusCode === 403
isExpired(outcome) == outcome = "expired"

WelcomeItems == Assistant(<<"Welcome! Here are some popular items to get you started.">>)

WelcomeFallback == Assistant(<<"Welcome! I'm here to help you browse the menu.">>)

\* The id `call_init_${Date.now()}` of the initial search's tool call.
InitCallId == 0 - 1

\* The three messages appended after an initial search that found items.
initialSearchMessages ==
    <<[Assistant(<<>>) EXCEPT
          !.tool_calls = <<[ToolCall("search_menu", NoArgs) EXCEPT !.id = InitCallId]>>],
      ToolMessage(InitCallId, [NoResult EXCEPT !.displayType = "menu_cards",
                                               !.items = <<1>>]),
      WelcomeItems>>

initEffectGuard_NoRef(isInitialized, initializingRef) == isInitialized

\* if (isInitialized || initializingRef.current) return;
initEffectGuard(isInitialized, initializingRef) == isInitialized \/ initializingRef

\* The init effect of a render whose token is tok: it returns at its guard,
\* or sets the ref and starts a run that reads the session cookie.
initEffect(p, tok) ==
    IF initEffectGuard(p.isInitialized, p.initializingRef) \/ Len(p.runs) >= MaxRuns
    THEN p
    ELSE [p EXCEPT !.initializingRef = TRUE,
                   !.runs = Append(@, NewRun(tok, p.cookies.session))]

\* token is a dependency of the init effect: the effect runs again in the
\* render that follows a change of the token.
tokenChanged(p, old, new) == IF old = new THEN p ELSE initEffect(p, new)

\* What a step of init() leaves: the provider record, whether it called
\* clearSessionCookies, and the message list.
Step(p, cleared, ms) == [p |-> p, cleared |-> cleared, messages |-> ms]

\* clearSessionCookies: the three cookies removed, setToken(null),
\* setPhoneNumber(null).
clearSessionCookies(p, r) ==
    [p EXCEPT !.cookies = [session |-> FALSE, auth |-> FALSE],
              !.runs[r].cleared = @ + 1]

Commit(st) ==
    /\ token' = IF st.cleared THEN NoStr ELSE token
    /\ prov' = IF st.cleared THEN tokenChanged(st.p, token, NoStr) ELSE st.p
    /\ messages' = st.messages

GoTo(p, r, ipc) == [p EXCEPT !.runs[r].ipc = ipc]

\* catch (error) { setIsInitialized(true) }
Abort(p, r) == [GoTo(p, r, "done") EXCEPT !.isInitialized = TRUE]

\* setSessionId(chatId) and the two session cookies, then the call of
\* getRestaurantStatus.
SessionCreated(p, r) ==
    [GoTo(p, r, "status") EXCEPT !.sessionId = "chat", !.cookies.session = TRUE]

\* setMessages([system prompt]), then the initial search when one is
\* configured, setIsInitialized(true) otherwise.
Restore(p, r) ==
    Step(IF p.initialSearch
         THEN GoTo(p, r, "initialSearch")
         ELSE [GoTo(p, r, "done") EXCEPT !.isInitialized = TRUE],
         FALSE, <<SystemPrompt>>)

\* After the basket is known: the customer context when the run's token is
\* set, the messages otherwise.
AfterBasket(p, r) ==
    IF p.runs[r].token # NoStr
    THEN Step(GoTo(p, r, "customerContext"), FALSE, messages)
    ELSE Restore(p, r)

AfterCall(p, outcome) ==
    [p EXCEPT !.failures = @ + (IF outcome = "ok" THEN 0 ELSE 1)]

MayFail(outcome) == outcome # "ok" => prov.failures < MaxInitFaults

Idle == UNCHANGED <<basket, turn, pc, sm, request, local, response, obs, faults,
                    isLoading, inFlight, orderCall>>

\* The first render's effects: the init effect with the token of that
\* render.
ProviderMount ==
    /\ ~prov.mounted
    /\ prov' = initEffect([prov EXCEPT !.mounted = TRUE], token)
    /\ UNCHANGED <<messages, token>>
    /\ Idle

\* The auth cookie read by the first render's effect: setToken, and the
\* render that follows, while the first run waits for createSession.
AuthCookieLoaded ==
    /\ prov.mounted
    /\ prov.cookies.auth
    /\ token = NoStr
    /\ prov.runs # <<>>
    /\ prov.runs[1].ipc = "createSession"
    /\ token' = "token"
    /\ prov' = tokenChanged(prov, token, "token")
    /\ UNCHANGED messages
    /\ Idle

\* verifyOTP succeeded: setToken and the auth cookie.
VerifyOTP ==
    /\ prov.isInitialized
    /\ token = NoStr
    /\ token' = "token"
    /\ prov' = tokenChanged([prov EXCEPT !.cookies.auth = TRUE], token, "token")
    /\ UNCHANGED messages
    /\ Idle

\* createSession(token, validStoredSession) settles.
InitCreateSession ==
    \E r \in 1..Len(prov.runs), outcome \in GatewayOutcomes, withBasket \in BOOLEAN :
        LET R == prov.runs[r]
            p == [AfterCall(prov, outcome) EXCEPT !.runs[r].createSession = @ + 1,
                                                !.runs[r].initialBasket = withBasket]
        IN  /\ R.ipc = "createSession"
            /\ MayFail(outcome)
            /\ outcome # "ok" => ~withBasket
            /\ Commit(IF outcome = "ok"
                      THEN Step(IF R.stored THEN GoTo(p, r, "validate")
                                ELSE SessionCreated(p, r), FALSE, messages)
                      ELSE IF R.stored /\ isExpired(outcome)
                      THEN Step(GoTo(clearSessionCookies(p, r), r, "retryOuter"),
                                TRUE, messages)
                      ELSE Step(Abort(p, r), FALSE, messages))
            /\ Idle

\* The getBasket call that validates a restored session settles.
InitValidate ==
    \E r \in 1..Len(prov.runs), outcome \in GatewayOutcomes :
        LET p == AfterCall(prov, outcome)
        IN  /\ prov.runs[r].ipc = "validate"
            /\ MayFail(outcome)
            /\ Commit(IF outcome = "ok"
                      THEN Step(SessionCreated(p, r), FALSE, messages)
                      ELSE IF isExpired(outcome)
                      THEN Step(GoTo(clearSessionCookies(p, r), r, "retryInner"),
                                TRUE, messages)
                      ELSE Step(Abort(p, r), FALSE, messages))
            /\ Idle

\* The createSession(undefined, undefined) of the validation's catch block
\* settles; its rejection is caught by the outer catch block.
InitRetryInner ==
    \E r \in 1..Len(prov.runs), outcome \in GatewayOutcomes, withBasket \in BOOLEAN :
        LET R == prov.runs[r]
            p == [AfterCall(prov, outcome) EXCEPT !.runs[r].createSession = @ + 1,
                                                !.runs[r].initialBasket = withBasket]
        IN  /\ R.ipc = "retryInner"
            /\ MayFail(outcome)
            /\ outcome # "ok" => ~withBasket
            /\ Commit(IF outcome = "ok"
                      THEN Step(SessionCreated(p, r), FALSE, messages)
                      ELSE IF R.stored /\ isExpired(outcome)
                      THEN Step(GoTo(clearSessionCookies(p, r), r, "retryOuter"),
                                TRUE, messages)
                      ELSE Step(Abort(p, r), FALSE, messages))
            /\ Idle

\* The createSession(undefined, undefined) of the outer catch block settles.
InitRetryOuter ==
    \E r \in 1..Len(prov.runs), outcome \in GatewayOutcomes, withBasket \in BOOLEAN :
        LET p == [AfterCall(prov, outcome) EXCEPT !.runs[r].createSession = @ + 1,
                                                !.runs[r].initialBasket = withBasket]
        IN  /\ prov.runs[r].ipc = "retryOuter"
            /\ MayFail(outcome)
            /\ outcome # "ok" => ~withBasket
            /\ Commit(IF outcome = "ok"
                      THEN Step(SessionCreated(p, r), FALSE, messages)
                      ELSE Step(Abort(p, r), FALSE, messages))
            /\ Idle

\* getRestaurantStatus settles; the basket of the session result is used
\* when there is one.
InitRestaurantStatus ==
    \E r \in 1..Len(prov.runs), outcome \in {"ok", "other"} :
        LET p == AfterCall(prov, outcome)
        IN  /\ prov.runs[r].ipc = "status"
            /\ MayFail(outcome)
            /\ Commit(IF outcome # "ok" THEN Step(Abort(p, r), FALSE, messages)
                      ELSE IF p.runs[r].initialBasket THEN AfterBasket(p, r)
                      ELSE Step(GoTo(p, r, "basket"), FALSE, messages))
            /\ Idle

\* getBasket settles.
InitBasket ==
    \E r \in 1..Len(prov.runs), outcome \in {"ok", "other"} :
        LET p == AfterCall(prov, outcome)
        IN  /\ prov.runs[r].ipc = "basket"
            /\ MayFail(outcome)
            /\ Commit(IF outcome # "ok" THEN Step(Abort(p, r), FALSE, messages)
                      ELSE AfterBasket(p, r))
            /\ Idle

\* getCustomerContext(chatId, token) settles.  `if (token)` after it reads
\* the same token of the run's render as before it.  This step and the next
\* are no disjuncts of NextProvider: the one run of a mount holds the token
\* of the first render, which is null (RunTokenIsNull), so `if (token)`
\* at the start of the block is never true.
InitCustomerContext ==
    \E r \in 1..Len(prov.runs), outcome \in GatewayOutcomes :
        LET R == prov.runs[r]
            p == AfterCall(prov, outcome)
            q == IF isExpired(outcome)
                 THEN [clearSessionCookies(p, r) EXCEPT !.runs[r].contextExpired = TRUE]
                 ELSE p
        IN  /\ R.ipc = "customerContext"
            /\ MayFail(outcome)
            /\ Commit(IF R.token # NoStr
                      THEN Step(GoTo(q, r, "paymentAccounts"), isExpired(outcome), messages)
                      ELSE [Restore(q, r) EXCEPT !.cleared = isExpired(outcome)])
            /\ Idle

\* getPaymentAccounts(token) settles.
InitPaymentAccounts ==
    \E r \in 1..Len(prov.runs), outcome \in GatewayOutcomes :
        LET R == prov.runs[r]
            p == [AfterCall(prov, outcome) EXCEPT !.runs[r].paymentToken = R.token]
            q == IF isExpired(outcome) THEN clearSessionCookies(p, r) ELSE p
        IN  /\ R.ipc = "paymentAccounts"
            /\ MayFail(outcome)
            /\ Commit([Restore(q, r) EXCEPT !.cleared = isExpired(outcome)])
            /\ Idle

\* searchMenu(chatId, config.initialSearch) settles: items, no item (the
\* cookies are removed and the page reloads; init returns), or a rejection.
InitInitialSearch ==
    \E r \in 1..Len(prov.runs), outcome \in {"items", "empty", "other"} :
        LET p == [prov EXCEPT !.failures = @ + (IF outcome = "other" THEN 1 ELSE 0)]
            done == [GoTo(p, r, "done") EXCEPT !.isInitialized = TRUE]
        IN  /\ prov.runs[r].ipc = "initialSearch"
            /\ outcome = "other" => prov.failures < MaxInitFaults
            /\ Commit(IF outcome = "items"
                      THEN Step([done EXCEPT !.placeholders = TRUE], FALSE,
                                messages \o initialSearchMessages)
                      ELSE IF outcome = "empty"
                      THEN Step([GoTo(p, r, "reload") EXCEPT
                                    !.cookies = [session |-> FALSE, auth |-> FALSE],
                                    !.reloads = @ + 1],
                                FALSE, messages)
                      ELSE Step(done, FALSE, Append(messages, WelcomeFallback)))
            /\ Idle

\* addMessage: setMessages(prev => [...prev, message]), called by the basket
\* panel after placeOrder succeeded for a signed-in customer.
AddMessage ==
    /\ prov.isInitialized
    /\ prov.sessionId # NoStr
    /\ token # NoStr
    /\ prov.added < MaxAdded
    /\ messages' = Append(messages, Assistant(ThanksText))
    /\ prov' = [prov EXCEPT !.added = @ + 1,
                            !.addedInFlight = @ \/ inFlight > 0]
    /\ UNCHANGED token
    /\ Idle

\* sendMessage without a session: if (!sessionId) throw, caught by
\* handleSend.
SendMessageNoSession ==
    /\ turn < MaxTurns
    /\ prov.isInitialized
    /\ prov.sessionId = NoStr
    /\ \E text \in UserTexts : handleSendGuard(text, isLoading)
    /\ turn' = turn + 1
    /\ UNCHANGED <<messages, token, basket, pc, sm, request, local, response, obs,
                   faults, isLoading, inFlight, prov, orderCall>>

\* What chat() gives for the messages it was given: a direct answer, or a
\* tool-calling turn's answer with allMessages.
ChatResponses(given, t) ==
    LET calls == WithIds(<<ToolCall("search_menu", NoArgs)>>, t)
        round == <<[Assistant(<<>>) EXCEPT !.tool_calls = calls],
                   ToolMessage(calls[1].id, [NoResult EXCEPT !.status = 200])>>
        final == Assistant(<<"Sure">>)
    IN  {Response(final),
         [Response(final) EXCEPT
             !.toolCalls = <<calls>>,
             !.allMessages = <<allMessagesOf(given, given \o round, final)>>]}

\* chatbotService.chat settles.
ChatSettles ==
    /\ pc = "loadBasketContext"
    /\ \/ pc' = "threw" /\ response' = response
       \/ \E resp \in ChatResponses(request.messages, turn) :
            pc' = "returned" /\ response' = <<resp>>
    /\ UNCHANGED <<messages, token, basket, turn, sm, request, local, obs, faults,
                   isLoading, inFlight, prov, orderCall>>

InitProvider ==
    /\ messages = <<>>
    /\ token = NoStr
    /\ basket = EmptyBasket
    /\ turn = 0
    /\ pc = "idle"
    /\ sm = [messages |-> <<>>, newMessages |-> <<>>]
    /\ request = [messages |-> <<>>, token |-> NoStr]
    /\ local = LocalInit
    /\ response = <<>>
    /\ obs = ObsInit
    /\ faults = 0
    /\ isLoading = FALSE
    /\ inFlight = 0
    /\ prov \in {ProvUnmounted(s, a, i) : s \in BOOLEAN, a \in BOOLEAN, i \in BOOLEAN}
    /\ orderCall = NoOrderCall

NextProvider ==
    \/ ProviderMount
    \/ AuthCookieLoaded
    \/ VerifyOTP
    \/ InitCreateSession
    \/ InitValidate
    \/ InitRetryInner
    \/ InitRetryOuter
    \/ InitRestaurantStatus
    \/ InitBasket
    \/ InitInitialSearch
    \/ AddMessage
    \/ SendMessage
    \/ SendMessageNoSession
    \/ ChatSettles
    \/ SendMessageReturn
    \/ SendMessageThrow

SpecProvider == InitProvider /\ [][NextProvider]_vars

\* ------------------------------------------------------------------------
\* FlipDishProvider of src/unnamed/part_000: the init effect without the
\* initializingRef guard, session validation and initial search
\* ------------------------------------------------------------------------
\* if (isInitialized) return;
initEffectV1(p, tok) ==
    IF p.isInitialized \/ Len(p.runs) >= MaxRuns
    THEN p
    ELSE [p EXCEPT !.runs = Append(@, NewRun(tok, p.cookies.session))]

ProviderMountV1 ==
    /\ ~prov.mounted
    /\ prov' = initEffectV1([prov EXCEPT !.mounted = TRUE], token)
    /\ UNCHANGED <<messages, token>>
    /\ Idle

\* The auth cookie read by the first render's effect: setToken, and the
\* init effect of the render that follows.
AuthCookieLoadedV1 ==
    /\ prov.mounted
    /\ prov.cookies.auth
    /\ token = NoStr
    /\ prov.runs # <<>>
    /\ prov.runs[1].ipc = "createSession"
    /\ token' = "token"
    /\ prov' = initEffectV1(prov, "token")
    /\ UNCHANGED messages
    /\ Idle

\* setMessages([system prompt]); setIsInitialized(true)
RestoreV1(p, r) ==
    Step([GoTo(p, r, "done") EXCEPT !.isInitialized = TRUE], FALSE, <<SystemPrompt>>)

AfterBasketV1(p, r) ==
    IF p.runs[r].token # NoStr
    THEN Step(GoTo(p, r, "customerContext"), FALSE, messages)
    ELSE RestoreV1(p, r)

\* createSession(token, storedSessionId) settles.
InitCreateSessionV1 ==
    \E r \in 1..Len(prov.runs), outcome \in {"ok", "other"}, withBasket \in BOOLEAN :
        LET p == [AfterCall(prov, outcome) EXCEPT !.runs[r].createSession = @ + 1,
                                                  !.runs[r].initialBasket = withBasket]
        IN  /\ prov.runs[r].ipc = "createSession"
            /\ MayFail(outcome)
            /\ outcome # "ok" => ~withBasket
            /\ Commit(Step(IF outcome = "ok" THEN SessionCreated(p, r) ELSE Abort(p, r),
                           FALSE, messages))
            /\ Idle

InitRestaurantStatusV1 ==
    \E r \in 1..Len(prov.runs), outcome \in {"ok", "other"} :
        LET p == AfterCall(prov, outcome)
        IN  /\ prov.runs[r].ipc = "status"
            /\ MayFail(outcome)
            /\ Commit(IF outcome # "ok" THEN Step(Abort(p, r), FALSE, messages)
                      ELSE IF p.runs[r].initialBasket THEN AfterBasketV1(p, r)
                      ELSE Step(GoTo(p, r, "basket"), FALSE, messages))
            /\ Idle

InitBasketV1 ==
    \E r \in 1..Len(prov.runs), outcome \in {"ok", "other"} :
        LET p == AfterCall(prov, outcome)
        IN  /\ prov.runs[r].ipc = "basket"
            /\ MayFail(outcome)
            /\ Commit(IF outcome # "ok" THEN Step(Abort(p, r), FALSE, messages)
                      ELSE AfterBasketV1(p, r))
            /\ Idle

\* getCustomerContext(chatId, token) settles; a rejection is logged.
InitCustomerContextV1 ==
    \E r \in 1..Len(prov.runs), outcome \in GatewayOutcomes :
        LET p == [AfterCall(prov, outcome) EXCEPT
                     !.runs[r].contextExpired = isExpired(outcome)]
        IN  /\ prov.runs[r].ipc = "customerContext"
            /\ MayFail(outcome)
            /\ Commit(Step(GoTo(p, r, "paymentAccounts"), FALSE, messages))
            /\ Idle

\* getPaymentAccounts(token) settles; a rejection ends the run in the catch
\* block.
InitPaymentAccountsV1 ==
    \E r \in 1..Len(prov.runs), outcome \in GatewayOutcomes :
        LET p == [AfterCall(prov, outcome) EXCEPT
                     !.runs[r].paymentToken = prov.runs[r].token]
        IN  /\ prov.runs[r].ipc = "paymentAccounts"
            /\ MayFail(outcome)
            /\ Commit(IF outcome = "ok" THEN RestoreV1(p, r)
                      ELSE Step(Abort(p, r), FALSE, messages))
            /\ Idle

InitProviderV1 ==
    /\ messages = <<>>
    /\ token = NoStr
    /\ basket = EmptyBasket
    /\ turn = 0
    /\ pc = "idle"
    /\ sm = [messages |-> <<>>, newMessages |-> <<>>]
    /\ request = [messages |-> <<>>, token |-> NoStr]
    /\ local = LocalInit
    /\ response = <<>>
    /\ obs = ObsInit
    /\ faults = 0
    /\ isLoading = FALSE
    /\ inFlight = 0
    /\ prov \in {ProvUnmounted(s, a, FALSE) : s \in BOOLEAN, a \in BOOLEAN}
    /\ orderCall = NoOrderCall

NextProviderV1 ==
    \/ ProviderMountV1
    \/ AuthCookieLoadedV1
    \/ InitCreateSessionV1
    \/ InitRestaurantStatusV1
    \/ InitBasketV1
    \/ InitCustomerContextV1
    \/ InitPaymentAccountsV1

SpecProviderV1 == InitProviderV1 /\ [][NextProviderV1]_vars

\* ------------------------------------------------------------------------
\* flipdishApi.submitOrder and getPaymentAccounts in direct mode (no
\* serverUrl): one call from its arguments to its result
\* ------------------------------------------------------------------------
MaxAccounts == 2

MaxAccountId == 2

\* A payment account id; 0 is also what stands for undefined and null,
\* which `!accountId` and `|| null` treat like 0.
AccountIds == 0..MaxAccountId

PaymentAccounts == [PaymentAccountId : AccountIds, IsDefaultPaymentMethod : BOOLEAN]

AccountLists ==
    UNION {[1..n -> PaymentAccounts] : n \in 0..MaxAccounts}

defaultAccountId_First(accounts) ==
    IF accounts = <<>> THEN 0 ELSE accounts[1].PaymentAccountId

\* data.Data.find(acc => acc.IsDefaultPaymentMethod)?.PaymentAccountId || null
defaultAccountId(accounts) ==
    LET Defaults == {i \in 1..Len(accounts) : accounts[i].IsDefaultPaymentMethod}
    IN  IF Defaults = {} THEN 0
        ELSE accounts[CHOOSE i \in Defaults : \A j \in Defaults : i <= j].PaymentAccountId

OrderIdle == UNCHANGED <<messages, token, basket, turn, pc, sm, request, local,
                         response, obs, faults, isLoading, inFlight, prov>>

\* submitOrder up to its first await: the payment accounts are fetched when
\* no account id was passed, the order is posted otherwise.
SubmitOrderCall ==
    /\ orderCall.pc = "called"
    /\ orderCall' =
         IF orderCall.paymentAccountId = 0
         THEN [orderCall EXCEPT !.pc = "getPaymentAccounts",
                                !.paymentAccountsCalls = @ + 1]
         ELSE [orderCall EXCEPT !.pc = "post",
                                !.accountId = orderCall.paymentAccountId,
                                !.posted = Append(@, orderCall.paymentAccountId)]
    /\ OrderIdle

\* getPaymentAccounts settles: rejected (401 or 403 as TOKEN_EXPIRED, another
\* status, an invalid body), or resolved with the customer's accounts.
PaymentAccountsSettle ==
    /\ orderCall.pc = "getPaymentAccounts"
    /\ \E outcome \in {"ok", "expired", "other"} :
        orderCall' =
          IF outcome # "ok"
          THEN [orderCall EXCEPT !.pc = "threw",
                                 !.errorCode = IF outcome = "expired"
                                               THEN "TOKEN_EXPIRED" ELSE NoStr]
          ELSE IF defaultAccountId(orderCall.accounts) = 0
          THEN [orderCall EXCEPT !.pc = "returned", !.success = FALSE,
                                 !.errorCode = "NO_PAYMENT_METHOD"]
          ELSE [orderCall EXCEPT !.pc = "post",
                                 !.accountId = defaultAccountId(orderCall.accounts),
                                 !.posted = Append(@, defaultAccountId(orderCall.accounts))]
    /\ OrderIdle

\* The POST to /tools/order/submit settles.
OrderPostSettles ==
    /\ orderCall.pc = "post"
    /\ \E status \in {200, 401, 500} :
        orderCall' =
          IF status = 200
          THEN [orderCall EXCEPT !.pc = "clearBasket", !.clearBasketCalls = @ + 1]
          ELSE [orderCall EXCEPT !.pc = "returned", !.success = FALSE,
                                 !.errorCode = IF status = 401
                                               THEN "TOKEN_EXPIRED" ELSE NoStr]
    /\ OrderIdle

\* clearBasket after the order settles; its rejection is logged.
OrderClearBasketSettles ==
    /\ orderCall.pc = "clearBasket"
    /\ orderCall' = [orderCall EXCEPT !.pc = "returned", !.success = TRUE]
    /\ OrderIdle

InitOrder ==
    /\ messages = <<SystemPrompt>>
    /\ token = "token"
    /\ basket = EmptyBasket
    /\ turn = 0
    /\ pc = "idle"
    /\ sm = [messages |-> <<>>, newMessages |-> <<>>]
    /\ request = [messages |-> <<>>, token |-> NoStr]
    /\ local = LocalInit
    /\ response = <<>>
    /\ obs = ObsInit
    /\ faults = 0
    /\ isLoading = FALSE
    /\ inFlight = 0
    /\ prov = ProvReady
    /\ orderCall \in {[NoOrderCall EXCEPT !.pc = "called", !.paymentAccountId = id,
                                          !.accounts = accounts] :
                        id \in AccountIds, accounts \in AccountLists}

NextOrder ==
    \/ SubmitOrderCall
    \/ PaymentAccountsSettle
    \/ OrderPostSettles
    \/ OrderClearBasketSettles

SpecOrder == InitOrder /\ [][NextOrder]_vars

\* ------------------------------------------------------------------------
\* Properties
\* ------------------------------------------------------------------------
\* The text of the user message of the turn in flight.
LastUserText == sm.newMessages[Len(sm.newMessages)].content.text

\* The user's text contains "place order".
SaysPlaceOrder ==
    \E i \in 1..(Len(LastUserText) - 1) :
        LastUserText[i] = "place" /\ LastUserText[i + 1] = "order"

TurnReturned == pc = "returned"

Settled == pc \in {"returned", "threw"}

\* The tool calls the model asked for in round 1 (without the synthesized one).
RequestedToolCalls ==
    Filter(local.toolCalls, LAMBDA c : c.id # AutoShowItemsId)

\* The tool messages appended in this round.
RoundToolMessages ==
    SubSeq(local.functionMessages, Len(request.messages) + 2,
           Len(local.functionMessages))

HasSentinel(msgs) ==
    \E k \in 1..Len(msgs) :
        /\ msgs[k].role = "tool"
        /\ msgs[k].content.kind = "json"
        /\ msgs[k].content.val.error \in {"AUTHENTICATION_REQUIRED", "TOKEN_EXPIRED"}

AsksSubmitOrder(calls) == \E k \in 1..Len(calls) : calls[k].name = "submit_order"

C2_SubmitsDirectly ==
    (TurnReturned /\ SaysPlaceOrder /\ request.token # NoStr
        /\ BasketLines(obs.basketAtEntry) # {})
        => /\ obs.gw.submitOrder = 1
           /\ obs.completionCalls = 0
           /\ obs.order # <<>>
           /\ LET r == obs.order[1]
              IN  IF r.success
                  THEN /\ response[1].orderSubmitted = "true"
                       /\ response[1].message.content.text =
                            IF r.leadTimePrompt # <<>>
                            THEN normalizeLeadTimePrompt(r.leadTimePrompt)
                            ELSE IF r.orderId # NoStr THEN ThanksWithId(r.orderId)
                            ELSE <<>>
                  ELSE /\ response[1].orderSubmitted = "unset"
                       /\ response[1].message.content.text =
                            IF r.error # NoStr THEN <<r.error>> ELSE OrderFailedText

\* C3: a "place order" turn with a token and an empty basket returns the
\* fixed "basket is empty" message without a completion call and without a
\* submitOrder call.
C3_EmptyBasketMessage ==
    (TurnReturned /\ SaysPlaceOrder /\ request.token # NoStr
        /\ BasketLines(obs.basketAtEntry) = {})
        => /\ response[1].message.content.text = BasketEmptyText
           /\ obs.completionCalls = 0
           /\ obs.gw.submitOrder = 0

C3_Witness ==
    /\ TurnReturned /\ SaysPlaceOrder /\ request.token # NoStr
    /\ BasketLines(obs.basketAtEntry) = {}
    /\ local.basket # <<>>
    /\ response[1].message.content.text = BasketEmptyText

\* C4: a turn makes 0, 1 or 2 completion calls; none exactly when the
\* checkout interceptor matched; and the second call is made only after a
\* first call that asked for at least one tool, once every requested tool
\* call was dispatched and answered, the auto-injection was applied, and no
\* terminal condition (sentinel in a tool result of the round, submit_order
\* among the calls) was found.
C4_CompletionCalls ==
    /\ obs.completionCalls \in {0, 1, 2}
    /\ Settled => (obs.completionCalls = 0 <=> SaysPlaceOrder)
    /\ (pc \in {"dispatch", "refreshBasketContext", "round2"})
            => obs.completionCalls = 1
    /\ obs.completionCalls = 2 =>
        /\ Len(RequestedToolCalls) >= 1
        /\ obs.executed = Len(RequestedToolCalls)
        /\ \A k \in 1..Len(RequestedToolCalls) :
              RoundToolMessages[k].tool_call_id = RequestedToolCalls[k].id
        /\ shouldAutoInject([local EXCEPT !.showItemsCalled =
                                \E k \in 1..Len(RequestedToolCalls) :
                                    RequestedToolCalls[k].name = "show_items"])
              <=> (Len(RoundToolMessages) = Len(RequestedToolCalls) + 1
                   /\ RoundToolMessages[Len(RoundToolMessages)].tool_call_id = AutoShowItemsId)
        /\ ~HasSentinel(RoundToolMessages)
        /\ ~AsksSubmitOrder(RequestedToolCalls)

C4_Witness ==
    /\ TurnReturned
    /\ obs.completionCalls = 2
    /\ Len(RequestedToolCalls) = 2

\* The round's tool calls have all executed and one of their results carries
\* a sentinel, or submit_order was among them.
TerminalCondition ==
    /\ Len(RequestedToolCalls) >= 1
    /\ obs.executed = Len(RequestedToolCalls)
    /\ \/ HasSentinel(RoundToolMessages)
       \/ AsksSubmitOrder(RequestedToolCalls)

\* C5: once the tool calls of a round have executed, if a tool result
\* carries AUTHENTICATION_REQUIRED or TOKEN_EXPIRED, or submit_order was
\* among the calls, chat() makes no second completion call: it never moves
\* on to the second round, and it returns after one completion call with the
\* authRequired, tokenExpired and orderSubmitted flags set.
C5_TerminalSkipsRound2 ==
    TerminalCondition
        => /\ pc \notin {"refreshBasketContext", "round2"}
           /\ obs.completionCalls = 1
           /\ TurnReturned =>
                /\ response[1].authRequired \in {"true", "false"}
                /\ response[1].tokenExpired \in {"true", "false"}
                /\ response[1].orderSubmitted \in {"true", "false"}
                /\ response[1].authRequired = "true" \/ response[1].tokenExpired = "true"
                      \/ AsksSubmitOrder(RequestedToolCalls)

\* The round asked for submit_order and nothing else.
OnlySubmitOrder ==
    Len(RequestedToolCalls) = 1 /\ RequestedToolCalls[1].name = "submit_order"

\* The prompt without a leading "Tell the user:" and without surrounding
\* blanks and quotes.
WithoutPrefixAndQuotes(prompt) == StripQuotes(StripTellPrefix(prompt))

SubmittedWithPrompt ==
    /\ TurnReturned /\ OnlySubmitOrder
    /\ obs.order # <<>> /\ obs.order[1].success
    /\ obs.order[1].leadTimePrompt # <<>>

\* C6 (as stated): a turn whose only tool call is submit_order, succeeding
\* with a lead-time prompt, makes one completion call, returns
\* orderSubmitted=true, and its final message is the prompt with the leading
\* "Tell the user:" and the surrounding quotes removed.
C6_FinalMessageIsStrippedPrompt ==
    SubmittedWithPrompt
        => /\ obs.completionCalls = 1
           /\ response[1].orderSubmitted = "true"
           /\ response[1].message.content.text =
                WithoutPrefixAndQuotes(obs.order[1].leadTimePrompt)

\* C6 (amended): as above, except that when nothing remains of the prompt
\* after the removal the final message is the fixed text "Thanks! Your order
\* has been placed."
C6_FinalMessageIsNormalizedPrompt ==
    SubmittedWithPrompt
        => /\ obs.completionCalls = 1
           /\ response[1].orderSubmitted = "true"
           /\ response[1].message.content.text =
                IF WithoutPrefixAndQuotes(obs.order[1].leadTimePrompt) = <<>>
                THEN ThanksText
                ELSE WithoutPrefixAndQuotes(obs.order[1].leadTimePrompt)

C6_Witness ==
    /\ SubmittedWithPrompt
    /\ obs.order[1].leadTimePrompt = <<"T", "s", "q", "Your pizza arrives in 20 minutes", "q">>
    /\ response[1].message.content.text = <<"Your pizza arrives in 20 minutes">>

\* C7: the final message of a turn that ends terminally is composed from the
\* tool results of that round only: the confirmation of the most recent of
\* them that has a lead-time prompt or an order id, and the empty string when
\* none has, whatever earlier turns left in the history.
C7_ConfirmationFromThisRoundOnly ==
    (TurnReturned /\ obs.terminal)
        => response[1].message.content.text = buildOrderConfirmation(RoundToolMessages)

\* C8: in the recorded tool calls and results of a round, every search_menu
\* call that produced at least one item is followed by a show_items call.
C8_SearchFollowedByShowItems ==
    (TurnReturned /\ response[1].allMessages # <<>>)
        => \A k \in 1..Len(RequestedToolCalls) :
              (/\ RequestedToolCalls[k].name = "search_menu"
               /\ RoundToolMessages[k].content.val.dataItems # <<>>
               /\ RoundToolMessages[k].content.val.dataItems[1] # <<>>)
                  => \E j \in (k + 1)..Len(local.toolCalls) :
                        local.toolCalls[j].name = "show_items"

\* The part of the returned history that this round appended.
ReturnedRound ==
    SubSeq(response[1].allMessages[1], Len(sm.newMessages) + 1,
           Len(response[1].allMessages[1]))

\* C9: when the model called search_menu, the search returned N >= 1 items
\* and the model asked for no show_items, the returned history of the round
\* holds exactly one synthesized show_items result, its items are exactly
\* those N items, and the synthesized call with exactly those N ids is the
\* last entry of the assistant message's tool-call list.
C9_SynthesizedShowItems ==
    (/\ TurnReturned /\ response[1].allMessages # <<>>
     /\ \A k \in 1..Len(RequestedToolCalls) : RequestedToolCalls[k].name # "show_items")
        => \A s \in 1..Len(RequestedToolCalls) :
              (/\ RequestedToolCalls[s].name = "search_menu"
               /\ RoundToolMessages[s].content.val.dataItems # <<>>
               /\ RoundToolMessages[s].content.val.dataItems[1] # <<>>)
                  => LET found == RoundToolMessages[s].content.val.dataItems[1]
                         round == ReturnedRound
                         synth == {k \in 1..Len(round) :
                                      /\ round[k].role = "tool"
                                      /\ round[k].tool_call_id = AutoShowItemsId}
                         calls == round[1].tool_calls
                     IN  /\ Cardinality(synth) = 1
                         /\ \A k \in synth :
                               /\ round[k].content.val.displayType = "menu_cards"
                               /\ round[k].content.val.items = <<found>>
                         /\ calls[Len(calls)].id = AutoShowItemsId
                         /\ calls[Len(calls)].name = "show_items"
                         /\ calls[Len(calls)].args.menuItemIds = found

IsBasketContext(m) == m.role = "system" /\ m.content.kind = "context"

\* C10: over any sequence of turns whose returned allMessages is fed back as
\* the next history, no basket-context message appears in a returned
\* allMessages (nor in the persisted history), and the message sequence
\* given to chat() is the same after the call as before it.
C10_NoEphemeralContextInHistory ==
    /\ \A k \in 1..Len(messages) : ~IsBasketContext(messages[k])
    /\ (TurnReturned /\ response[1].allMessages # <<>>)
            => \A k \in 1..Len(response[1].allMessages[1]) :
                    ~IsBasketContext(response[1].allMessages[1][k])
    /\ pc # "idle" => request.messages = apiMessages(sm.newMessages)

C10_Witness ==
    /\ TurnReturned /\ turn = 2
    /\ response[1].allMessages # <<>>
    /\ Len(sm.messages) > 3
    /\ \E k \in 1..Len(obs.sent) : IsBasketContext(obs.sent[k])

\* C11: in every message sequence sent to the completion endpoint the
\* basket-context message comes immediately after the first system message
\* of the persisted history, or at position 0 when the history has no system
\* message, and the persisted messages keep their relative order (without a
\* context message the history is sent as it is).
C11_ContextAfterFirstSystemMessage ==
    pc = "inserted" =>
        LET sent == local.modelMessages
            history == request.messages
            systems == {k \in 1..Len(history) : history[k].role = "system"}
            first == IF systems = {} THEN 0
                     ELSE CHOOSE k \in systems : \A j \in systems : k <= j
            ctx == {k \in 1..Len(sent) : IsBasketContext(sent[k])}
        IN  /\ Cardinality(ctx) <= 1
            /\ ctx = {} => sent = history
            /\ \A k \in ctx :
                  /\ k = first + 1
                  /\ SubSeq(sent, 1, k - 1) \o SubSeq(sent, k + 1, Len(sent)) = history

C11_Witness ==
    /\ pc = "inserted"
    /\ Len(request.messages) = 3
    /\ request.messages[1].role = "system"
    /\ IsBasketContext(local.modelMessages[2])

\* C12: for every tool-call list of round 1, once the turn has ended every
\* requested call has exactly one tool-result message, and a turn that
\* reached the dispatch loop did not throw before it answered every call:
\* a failing call becomes an error result and the remaining calls still run.
C12_EveryCallYieldsOneResult ==
    (Settled /\ RequestedToolCalls # <<>>)
        => /\ \A k \in 1..Len(RequestedToolCalls) :
                 Cardinality({j \in 1..Len(local.functionMessages) :
                                /\ local.functionMessages[j].role = "tool"
                                /\ local.functionMessages[j].tool_call_id =
                                       RequestedToolCalls[k].id}) = 1
           /\ obs.executed = Len(RequestedToolCalls)

\* The round asked for add_to_basket and then remove_from_basket of item 1,
\* and both calls were answered without an error.
AddThenRemove ==
    /\ Len(RequestedToolCalls) = 2
    /\ RequestedToolCalls[1].name = "add_to_basket"
    /\ RequestedToolCalls[1].args.menuItemId = 1
    /\ RequestedToolCalls[2].name = "remove_from_basket"
    /\ RequestedToolCalls[2].args.menuItemId = 1
    /\ obs.executed = 2
    /\ \A k \in 1..2 : /\ RoundToolMessages[k].content.kind = "json"
                       /\ RoundToolMessages[k].content.val.error = NoStr

\* C13: the tool calls of a round execute one at a time in the order the
\* model asked for them: the k-th tool message of the round answers the k-th
\* call, no more calls have run than messages were appended, and a
\* remove_from_basket that follows an add_to_basket acts on the basket the
\* add produced (it clears the basket exactly when the add made its only
\* line, and otherwise returns the added-to basket less one unit).
C13_SequentialInRequestedOrder ==
    /\ (pc \in {"dispatch", "refreshBasketContext", "round2", "returned"}
          /\ RequestedToolCalls # <<>>)
          => /\ obs.executed = local.idx - 1
             /\ Len(RoundToolMessages) >= obs.executed
             /\ \A k \in 1..obs.executed :
                   RoundToolMessages[k].tool_call_id = RequestedToolCalls[k].id
    /\ (pc \in {"refreshBasketContext", "round2", "returned"} /\ AddThenRemove)
          => LET afterAdd == [obs.basketAtEntry EXCEPT ![1] = @ + 1]
                 removed == RoundToolMessages[2].content.val
             IN  /\ RoundToolMessages[1].content.val.basket = <<afterAdd>>
                 /\ IF BasketLines(afterAdd) = {1} /\ afterAdd[1] <= 1
                    THEN /\ removed.message = "Basket cleared"
                         /\ obs.gw.clearBasket = 1
                         /\ obs.gw.updateBasket = 1
                         /\ basket = EmptyBasket
                    ELSE /\ removed.basket = <<[afterAdd EXCEPT ![1] = @ - 1]>>
                         /\ obs.gw.clearBasket = 0
                         /\ obs.gw.updateBasket = 2
                         /\ basket = obs.basketAtEntry

C13_Witness ==
    /\ TurnReturned /\ AddThenRemove
    /\ obs.basketAtEntry = EmptyBasket
    /\ RoundToolMessages[2].content.val.message = "Basket cleared"
    /\ RoundToolMessages[1].tool_call_id < RoundToolMessages[2].tool_call_id

\* The call the dispatch loop executed last, and its tool message.
LastExecutedCall == RequestedToolCalls[obs.executed]

LastToolMessage == RoundToolMessages[obs.executed]

\* C14: an add_to_basket call whose item id is not in the non-empty search
\* result cache is answered with the "Invalid menuItemId" error that lists
\* the ids of the cache, and makes no updateBasket call (none at all in the
\* round when it is the first call) and no change to the basket.
C14_AddOfUnknownItemRejected ==
    (/\ pc \in {"dispatch", "refreshBasketContext", "round2", "returned"}
     /\ obs.executed >= 1
     /\ LastExecutedCall.name = "add_to_basket"
     /\ local.searchResults # <<>>
     /\ \A k \in 1..Len(local.searchResults) :
            local.searchResults[k] # LastExecutedCall.args.menuItemId)
        => /\ LastToolMessage.content.kind = "json"
           /\ LastToolMessage.content.val.error = "Invalid menuItemId. Valid IDs:"
           /\ LastToolMessage.content.val.validIds = <<local.searchResults>>
           /\ LastToolMessage.content.val.status = 0
           /\ obs.gw.updateBasket < obs.executed
           /\ obs.executed = 1 =>
                 /\ obs.gw.updateBasket = 0
                 /\ basket = obs.basketAtEntry

C14_Witness ==
    /\ TurnReturned
    /\ obs.executed = 1
    /\ LastExecutedCall.name = "add_to_basket"
    /\ LastExecutedCall.args.menuItemId = 3
    /\ local.searchResults = <<1, 2>>
    /\ LastToolMessage.content.val.validIds = <<<<1, 2>>>>

\* C15: a verify_option_selection call whose item id is not in the non-empty
\* search result cache is answered with an error that lists the ids of the
\* cache, and makes no gateway call.
C15_VerifyOfUnknownItemListsValidIds ==
    (/\ pc \in {"dispatch", "refreshBasketContext"}
     /\ obs.executed = 1
     /\ LastExecutedCall.name = "verify_option_selection"
     /\ local.searchResults # <<>>
     /\ \A k \in 1..Len(local.searchResults) :
            local.searchResults[k] # LastExecutedCall.args.menuItemId)
        => /\ LastToolMessage.content.val.error # NoStr
           /\ LastToolMessage.content.val.validIds = <<local.searchResults>>
           /\ obs.gw = [NoCalls EXCEPT !.getBasket = 1]
           /\ basket = obs.basketAtEntry

\* The first call of the round was remove_from_basket and has executed.
RemoveExecutedFirst ==
    /\ pc \in {"dispatch", "refreshBasketContext", "round2", "returned"}
    /\ obs.executed = 1
    /\ RequestedToolCalls[1].name = "remove_from_basket"

\* The basket the call found has exactly one line, the requested item, with
\* at most the quantity to remove (1 when the call gives none).
RemovesLastUnit ==
    LET item == RequestedToolCalls[1].args.menuItemId
        quantity == IF RequestedToolCalls[1].args.quantity # 0
                    THEN RequestedToolCalls[1].args.quantity ELSE 1
    IN  /\ BasketLines(obs.basketAtEntry) = {item}
        /\ obs.basketAtEntry[item] <= quantity

ClearOrUpdate ==
    IF RemovesLastUnit
    THEN obs.gw.clearBasket = 1 /\ obs.gw.updateBasket = 0
    ELSE obs.gw.updateBasket = 1 /\ obs.gw.clearBasket = 0

\* C16 (as stated): every remove_from_basket call invokes clearBasket and no
\* updateBasket when the basket has exactly one line, the requested item,
\* with at most the quantity to remove; in every other case it invokes
\* updateBasket and not clearBasket.
C16_RemoveInvokesClearOrUpdate ==
    RemoveExecutedFirst => ClearOrUpdate

\* C16 (amended): the same, for every remove_from_basket call whose read of
\* the basket succeeded; when that read fails the call invokes neither
\* clearBasket nor updateBasket, leaves the basket as it was and is answered
\* with an error result.
C16_RemoveInvokesClearOrUpdateAfterRead ==
    RemoveExecutedFirst =>
        IF obs.thrownBy = "getBasket"
        THEN /\ obs.gw.clearBasket = 0 /\ obs.gw.updateBasket = 0
             /\ basket = obs.basketAtEntry
             /\ RoundToolMessages[1].content.val.error # NoStr
        ELSE ClearOrUpdate

C16_Witness ==
    /\ RemoveExecutedFirst /\ RemovesLastUnit
    /\ obs.thrownBy = NoStr
    /\ obs.gw.clearBasket = 1
    /\ basket = EmptyBasket

\* The messages FlipDishProvider sends to chat() in the turn that follows a
\* turn that returned allMessages: messages[0], the non-system messages of
\* allMessages and the next user message, less the placeholder messages.
NextTurnHistory ==
    apiMessages(Append(<<sm.messages[1]>>
                          \o Filter(response[1].allMessages[1],
                                    LAMBDA m : m.role # "system"),
                       Msg("user", TextContent(<<"show", "pizza">>))))

\* C17: when a turn returns allMessages, the search result cache that the
\* backward scan rebuilds from it at the start of the next turn is the cache
\* held at the end of this turn's tool dispatch, whether this turn's search
\* succeeded, failed, returned no items or was not made.
C17_CacheRebuiltFromAllMessages ==
    (TurnReturned /\ response[1].allMessages # <<>>)
        => /\ extractSearchResultsFromHistory(response[1].allMessages[1])
                = local.searchResults
           /\ extractSearchResultsFromHistory(NextTurnHistory) = local.searchResults

C17_Witness ==
    /\ TurnReturned /\ response[1].allMessages # <<>>
    /\ turn = 2
    /\ extractSearchResultsFromHistory(request.messages) = <<1, 2>>
    /\ LastExecutedCall.name = "search_menu"
    /\ LastToolMessage.content.val.dataItems = <<<<>>>>
    /\ local.searchResults = <<>>

\* C18: a submit_order tool call in a turn without a token is answered with
\* the AUTHENTICATION_REQUIRED error result without a submitOrder call (or
\* any other gateway call for it), and the turn's response has
\* authRequired=true.
C18_SubmitOrderWithoutToken ==
    /\ (/\ pc \in {"dispatch", "refreshBasketContext", "round2", "returned"}
        /\ obs.executed >= 1
        /\ LastExecutedCall.name = "submit_order"
        /\ request.token = NoStr)
          => /\ LastToolMessage.content.kind = "json"
             /\ LastToolMessage.content.val.error = "AUTHENTICATION_REQUIRED"
             /\ LastToolMessage.content.val.status = 0
             /\ obs.gw.submitOrder = 0
             /\ obs.executed = 1 => /\ obs.gw = [NoCalls EXCEPT !.getBasket = 1]
                                    /\ basket = obs.basketAtEntry
    /\ (/\ pc \in {"dispatch", "refreshBasketContext", "round2", "returned"}
        /\ AsksSubmitOrder(RequestedToolCalls)
        /\ obs.executed = Len(RequestedToolCalls)
        /\ request.token = NoStr)
          => /\ TurnReturned
             /\ response[1].authRequired = "true"
             /\ response[1].orderSubmitted = "false"

C18_Witness ==
    /\ TurnReturned
    /\ request.token = NoStr
    /\ Len(RequestedToolCalls) = 2
    /\ RequestedToolCalls[2].name = "submit_order"
    /\ RoundToolMessages[2].content.val.error = "AUTHENTICATION_REQUIRED"
    /\ response[1].authRequired = "true"

\* C19: every tool message chat() appends has a content that is the JSON
\* text of an object, whatever the outcome of the tool call: success,
\* validation error, gateway failure, or a gateway call that returns no data.
C19_ToolContentIsJsonObject ==
    (/\ pc \in {"dispatch", "refreshBasketContext", "round2", "returned"}
     /\ RequestedToolCalls # <<>>)
        => \A k \in 1..Len(RoundToolMessages) :
              /\ RoundToolMessages[k].role = "tool"
              /\ RoundToolMessages[k].content.kind = "json"

\* A tool message whose content is the JSON text of an object.
IsJsonObject(m) == m.role = "tool" /\ m.content.kind = "json"

\* A tool message whose content is not valid JSON, or is JSON for a value
\* that is not an object.
IsUnparseable(m) == m.role = "tool" /\ m.content.kind \in {"text", "null"}

\* What the scans of a history give when only the tool messages holding a
\* JSON object count.
CacheOfJsonObjects(h) ==
    LET i == LastIndex(h, LAMBDA m : IsJsonObject(m) /\ m.content.val.dataItems # <<>>)
    IN  IF i = 0 THEN <<>> ELSE h[i].content.val.dataItems[1]

ConfirmationOfJsonObjects(h) ==
    LET i == LastIndex(h, LAMBDA m : /\ IsJsonObject(m)
                                      /\ \/ m.content.val.leadTimePrompt # <<>>
                                         \/ m.content.val.orderId # NoStr)
    IN  IF i = 0 THEN <<>>
        ELSE IF h[i].content.val.leadTimePrompt # <<>>
        THEN normalizeLeadTimePrompt(h[i].content.val.leadTimePrompt)
        ELSE ThanksWithId(h[i].content.val.orderId)

SentinelOfJsonObjects(h, code) ==
    \E k \in 1..Len(h) : IsJsonObject(h[k]) /\ h[k].content.val.error = code

MentionsTokenExpired(h) ==
    \E k \in 1..Len(h) :
        /\ IsUnparseable(h[k])
        /\ \E j \in 1..Len(h[k].content.text) : h[k].content.text[j] = "TOKEN_EXPIRED"

ScansIgnoreUnparseable ==
    /\ local.searchResults = CacheOfJsonObjects(request.messages)
    /\ response[1].message.content.text = ConfirmationOfJsonObjects(request.messages)
    /\ response[1].authRequired =
          Flag(SentinelOfJsonObjects(request.messages, "AUTHENTICATION_REQUIRED"))

\* C20 (as stated): for every history, also one with tool messages whose
\* content is not valid JSON or is JSON for a non-object, the search-cache
\* scan, the auth classifier and the order-confirmation scan complete and
\* treat those messages as no match: their results are those of the tool
\* messages that hold a JSON object.
C20_UnparseableIsNoMatch ==
    /\ pc = "history" => ENABLED ScanHistory
    /\ pc = "scanned" =>
          /\ ScansIgnoreUnparseable
          /\ response[1].tokenExpired =
                Flag(SentinelOfJsonObjects(request.messages, "TOKEN_EXPIRED"))

\* C20 (amended): the three scans complete for every such history; the
\* search-cache scan, the order-confirmation scan and the authRequired flag
\* treat those messages as no match, while the classifier also sets
\* tokenExpired for a tool message that does not parse and whose text
\* contains TOKEN_EXPIRED.
C20_UnparseableIsNoMatchButTokenExpired ==
    /\ pc = "history" => ENABLED ScanHistory
    /\ pc = "scanned" =>
          /\ ScansIgnoreUnparseable
          /\ response[1].tokenExpired =
                Flag(\/ SentinelOfJsonObjects(request.messages, "TOKEN_EXPIRED")
                     \/ MentionsTokenExpired(request.messages))

C20_Witness ==
    /\ pc = "scanned"
    /\ Len(request.messages) = 3
    /\ request.messages[1].content.kind = "null"
    /\ request.messages[2].content.val.dataItems = <<<<1, 2>>>>
    /\ request.messages[3].content.text = <<"error:", "AUTHENTICATION_REQUIRED">>
    /\ local.searchResults = <<1, 2>>
    /\ response[1].authRequired = "false"
    /\ response[1].tokenExpired = "false"

\* A tool message of h did not parse and its text contains the code.
MentionsCode(h, code) ==
    \E k \in 1..Len(h) :
        /\ IsUnparseable(h[k])
        /\ \E j \in 1..Len(h[k].content.text) : h[k].content.text[j] = code

\* C21: the classifier finds both sentinel codes by substring in a tool
\* message whose content did not parse as JSON: such a content containing
\* AUTHENTICATION_REQUIRED sets authRequired, and such a content containing
\* TOKEN_EXPIRED sets tokenExpired.
C21_SubstringFallbackForBothSentinels ==
    pc = "scanned" =>
        /\ MentionsCode(request.messages, "AUTHENTICATION_REQUIRED")
              => response[1].authRequired = "true"
        /\ MentionsCode(request.messages, "TOKEN_EXPIRED")
              => response[1].tokenExpired = "true"

\* C22: at most one turn of the conversation is in flight at any time: while
\* a sendMessage / chat() is running (from its start until it has returned
\* or thrown) isLoading is set and no second sendMessage can be started.
C22_OneTurnInFlight ==
    /\ inFlight \in {0, 1}
    /\ isLoading <=> inFlight = 1
    /\ pc # "idle" <=> inFlight = 1
    /\ inFlight = 1 => ~ENABLED SendMessage

C22_Witness ==
    /\ pc = "round2"
    /\ turn < MaxTurns
    /\ inFlight = 1
    /\ isLoading

\* The dispatch loop has run at least one call of the round.
InDispatch ==
    /\ pc \in {"dispatch", "refreshBasketContext", "round2", "returned"}
    /\ RequestedToolCalls # <<>>

\* The search result cache as the history and the tool results of the round
\* give it when call k starts: the items of the latest search result (of an
\* earlier turn, or of the calls 1..k-1 of this round).
CacheBefore(k) ==
    CacheOfJsonObjects(SubSeq(local.functionMessages, 1, Len(request.messages) + k))

\* The positions of the cache whose item id is among the requested ids.
KeptPositions(cache, ids) ==
    {k \in 1..Len(cache) : \E j \in 1..Len(ids) : ids[j] = cache[k]}

\* C23: the result of a show_items call is never an error, and its items are
\* exactly the items of the search result cache whose id is among the
\* requested ids, in the order of the cache; requested ids that are not in
\* the cache are dropped.  The call makes no gateway call.
C23_ShowItemsFiltersCache ==
    InDispatch =>
        \A n \in 1..obs.executed :
            RequestedToolCalls[n].name = "show_items" =>
                LET cache == CacheBefore(n)
                    kept == KeptPositions(cache, RequestedToolCalls[n].args.menuItemIds)
                    result == RoundToolMessages[n].content
                    items == result.val.items[1]
                IN  /\ result.kind = "json"
                    /\ result.val.error = NoStr
                    /\ result.val.status = 200
                    /\ result.val.displayType = "menu_cards"
                    /\ Len(items) = Cardinality(kept)
                    /\ \A k \in kept :
                          items[Cardinality({i \in kept : i <= k})] = cache[k]
                    /\ obs.executed = 1 =>
                          /\ [obs.gw EXCEPT !.getBasket = 0] = NoCalls
                          /\ basket = obs.basketAtEntry

C23_Witness ==
    /\ InDispatch
    /\ obs.executed = 1
    /\ RequestedToolCalls[1].name = "show_items"
    /\ RequestedToolCalls[1].args.menuItemIds = <<3, 2>>
    /\ CacheBefore(1) = <<2, 1, 2>>
    /\ RoundToolMessages[1].content.val.items = <<<<2, 2>>>>

\* A text that is empty or holds only whitespace.
Blank(text) == \A k \in 1..Len(text) : text[k] = "s"

\* C24: in a turn that reaches round 2 the final message is the text of the
\* second completion, except that when that text is empty or only whitespace
\* and the tool results of the history give an order confirmation, the final
\* message is that confirmation.
C24_Round2FinalMessage ==
    (TurnReturned /\ obs.completionCalls = 2)
        => LET confirmation == ConfirmationOfJsonObjects(local.functionMessages)
               final == response[1].message.content.text
               all == response[1].allMessages[1]
           IN  /\ final = IF Blank(obs.finalText) /\ confirmation # <<>>
                          THEN confirmation
                          ELSE obs.finalText
               /\ all[Len(all)].role = "assistant"
               /\ all[Len(all)].content.text = final

C24_Witness ==
    /\ TurnReturned /\ obs.completionCalls = 2
    /\ obs.finalText = <<"s">>
    /\ response[1].message.content.text = ThanksWithId("o1")

\* The messages given to the second completion call: those being sent while
\* the call is pending, those sent once it was made.
Round2Messages == IF pc = "round2" THEN local.modelMessages ELSE obs.sent

\* A tool call of the round changed the backend basket.
BasketChangedInRound == basket # obs.basketAtEntry

\* C25: in a turn that reaches round 2, the basket-context message sent with
\* the second completion call is built from a basket read made after the last
\* tool call of the round: it shows the backend basket as the round's adds,
\* removes and clears left it, it is the only context message sent, and the
\* context of round 1 is not sent again (when the second read fails no
\* context message is sent at all).
C25_Round2ContextIsFresh ==
    (pc = "round2" \/ obs.completionCalls = 2)
        => LET sent == Round2Messages
               ctx == {k \in 1..Len(sent) : IsBasketContext(sent[k])}
           IN  /\ obs.gw.getBasket >= 2
               /\ obs.refreshRead = "ok" => Cardinality(ctx) = 1
               /\ obs.refreshRead = "failed" => ctx = {}
               /\ \A k \in ctx :
                     /\ sent[k].content.val.basket = <<basket>>
                     /\ k = 2
                     /\ SubSeq(sent, 1, k - 1) \o SubSeq(sent, k + 1, Len(sent))
                            = local.functionMessages

C25_Witness ==
    /\ TurnReturned /\ obs.completionCalls = 2
    /\ BasketChangedInRound
    /\ obs.executed = 2
    /\ obs.refreshRead = "ok"
    /\ IsBasketContext(obs.sent[2])
    /\ obs.sent[2].content.val.basket = <<basket>>

\* C26: a successful search_menu call replaces the search result cache of
\* the round by its results (an empty result included), a search_menu call
\* that fails and every other call leave it as it was, and a show_items,
\* verify_option_selection or add_to_basket call that comes later in the
\* round is checked against the cache as the calls before it left it.
C26_SearchReplacesCache ==
    InDispatch =>
        /\ local.searchResults = CacheBefore(obs.executed + 1)
        /\ \A n \in 1..obs.executed :
            LET call == RequestedToolCalls[n]
                res == RoundToolMessages[n].content.val
                before == CacheBefore(n)
                known == \E k \in 1..Len(before) : before[k] = call.args.menuItemId
            IN  /\ (n = obs.executed /\ call.name = "search_menu") =>
                      local.searchResults =
                          IF res.error = NoStr THEN res.dataItems[1] ELSE before
                /\ (n = obs.executed /\ call.name # "search_menu") =>
                      local.searchResults = before
                /\ call.name = "add_to_basket" =>
                      /\ res.error = "Invalid menuItemId. Valid IDs:"
                            <=> (before # <<>> /\ ~known)
                      /\ res.validIds # <<>> => res.validIds = <<before>>
                /\ call.name = "verify_option_selection" =>
                      (res.error = "Item not found in search results. Please search again."
                            <=> ~known)
                /\ call.name = "show_items" =>
                      \A k \in 1..Len(res.items[1]) :
                          \E j \in 1..Len(before) : before[j] = res.items[1][k]

C26_Witness ==
    /\ InDispatch
    /\ obs.executed = 2
    /\ CacheBefore(1) = <<>>
    /\ RequestedToolCalls[1].name = "search_menu"
    /\ RoundToolMessages[1].content.val.dataItems = <<<<1, 2>>>>
    /\ RequestedToolCalls[2].name = "add_to_basket"
    /\ RequestedToolCalls[2].args.menuItemId = 3
    /\ RoundToolMessages[2].content.val.validIds = <<<<1, 2>>>>
    /\ local.searchResults = <<1, 2>>

\* The spellings of one name that differ in case only.
Spellings ==
    {{"Choose your base", "choose your base"}, {"Brown Rice", "brown rice"},
     {"Salad", "salad"}, {"Extras", "extras"}, {"Guacamole", "GUACAMOLE"},
     {"Size", "size"}, {"Fries", "fries"}}

SameIgnoringCase(a, b) == a = b \/ \E c \in Spellings : a \in c /\ b \in c

\* C27: for a cached item that has option sets, verify_option_selection
\* succeeds exactly when the given option-set name is, ignoring case, the
\* name of one of the item's option sets and the given option name is,
\* ignoring case, the name of an option of that set; on success the result
\* carries both names in the casing of the cache, and on failure it is an
\* error that lists the item's option sets (no such set) or the options of
\* the set (no such option).  The call makes no gateway call.
C27_VerifyIgnoresCase ==
    InDispatch =>
        \A n \in 1..obs.executed :
            LET call == RequestedToolCalls[n]
                res == RoundToolMessages[n].content.val
                before == CacheBefore(n)
                sets == OptionSetsOf(call.args.menuItemId)
                setMatches == {s \in 1..Len(sets) :
                                  SameIgnoringCase(sets[s].optionSetId, call.args.optionSetId)}
                Matches(s) == {o \in 1..Len(sets[s].options) :
                                  SameIgnoringCase(sets[s].options[o], call.args.selectedOption)}
            IN  (/\ call.name = "verify_option_selection"
                 /\ \E k \in 1..Len(before) : before[k] = call.args.menuItemId
                 /\ sets # <<>>)
                  => /\ (res.status = 200 /\ res.error = NoStr)
                            <=> \E s \in setMatches : Matches(s) # {}
                     /\ res.status = 200 =>
                            \E s \in setMatches : \E o \in Matches(s) :
                                res.verified = <<sets[s].optionSetId, sets[s].options[o]>>
                     /\ res.status # 200 =>
                            /\ res.error # NoStr
                            /\ res.verified = <<>>
                            /\ IF setMatches = {}
                               THEN res.available =
                                      <<[k \in 1..Len(sets) |-> sets[k].optionSetId]>>
                               ELSE \E s \in setMatches :
                                      res.available = <<sets[s].options>>
                     /\ obs.executed = 1 =>
                            /\ [obs.gw EXCEPT !.getBasket = 0] = NoCalls
                            /\ basket = obs.basketAtEntry

C27_Witness ==
    /\ InDispatch
    /\ obs.executed = 1
    /\ RequestedToolCalls[1].name = "verify_option_selection"
    /\ RequestedToolCalls[1].args.menuItemId = 1
    /\ RequestedToolCalls[1].args.optionSetId = "choose your base"
    /\ RequestedToolCalls[1].args.selectedOption = "brown rice"
    /\ CacheBefore(1) = <<2, 1>>
    /\ RoundToolMessages[1].content.val.verified = <<"Choose your base", "Brown Rice">>

\* C28: whenever the gateway signals TOKEN_EXPIRED while a tool call of the
\* round executes (an order submission rejected for an expired token
\* included), the tool result of that call carries the TOKEN_EXPIRED
\* sentinel, the round is not followed by a second completion call, and the
\* response has tokenExpired=true.
C28_TokenExpiredReachesResponse ==
    InDispatch =>
        \A n \in 1..obs.executed :
            obs.signals[n] = "TOKEN_EXPIRED"
                => /\ RoundToolMessages[n].content.kind = "json"
                   /\ RoundToolMessages[n].content.val.error = "TOKEN_EXPIRED"
                   /\ pc \notin {"refreshBasketContext", "round2"}
                   /\ obs.completionCalls = 1
                   /\ TurnReturned => response[1].tokenExpired = "true"

\* C29: in a turn without a token the gateway's submitOrder is never called,
\* neither by the checkout interceptor nor by the submit_order tool, and a
\* response has orderSubmitted=true only when a submitOrder call of that
\* same turn returned success.
C29_SubmitOrderNeedsToken ==
    /\ (pc # "idle" /\ request.token = NoStr) => obs.gw.submitOrder = 0
    /\ obs.gw.ordersAccepted <= obs.gw.submitOrder
    /\ (TurnReturned /\ response[1].orderSubmitted = "true")
          => /\ request.token # NoStr
             /\ obs.gw.ordersAccepted >= 1

C29_Witness ==
    /\ TurnReturned
    /\ turn = 2
    /\ ~obs.intercepted
    /\ response[1].orderSubmitted = "true"
    /\ obs.gw.submitOrder = 2
    /\ obs.gw.ordersAccepted = 1

\* The messages a tool-calling turn appended to the history it was given:
\* the assistant message of round 1 and the results of its tool calls.
ProducedInTurn ==
    SubSeq(local.functionMessages, Len(request.messages) + 1,
           Len(local.functionMessages))

\* C30: the authRequired and tokenExpired flags of a tool-calling turn's
\* response are those of the tool results the turn produced, and the turn
\* ends terminally only for one of those or for a submit_order call of its
\* own round; sentinel results persisted by earlier turns count for nothing.
C30_FlagsReflectThisTurnOnly ==
    (TurnReturned /\ obs.executed >= 1) =>
        /\ response[1].authRequired =
              Flag(checkAuthStatus(ProducedInTurn).authRequired)
        /\ response[1].tokenExpired =
              Flag(checkAuthStatus(ProducedInTurn).tokenExpired)
        /\ obs.terminal =>
              \/ checkAuthStatus(ProducedInTurn).authRequired
              \/ checkAuthStatus(ProducedInTurn).tokenExpired
              \/ submittedOrderCall(local.toolCalls)

\* C31: on a checkout-intent turn with a token the reply says the basket is
\* empty only when the basket was read and the gateway's basket has no
\* lines; a failed basket read is not reported as an empty basket.
C31_EmptyReplyOnlyForEmptyBasket ==
    (/\ TurnReturned
     /\ obs.intercepted
     /\ request.token # NoStr
     /\ response[1].message.content.text = BasketEmptyText)
        => /\ local.basket # <<>>
           /\ BasketLines(basket) = {}

\* The messages chat() was given: the provider's list with the new user
\* message, without the placeholder messages of the initial search.
GivenMessages == apiMessages(sm.newMessages)

\* C32: allMessages, when returned, is the given message sequence unchanged,
\* then the round-1 assistant message, then one tool message per tool call
\* listed in that assistant message (the auto-injected one included), in
\* the order of the calls and carrying their ids, then the final assistant
\* message, which is the last element.
C32_AllMessagesShape ==
    (TurnReturned /\ response[1].allMessages # <<>>) =>
        LET am == response[1].allMessages[1]
            n == Len(GivenMessages)
            k == obs.executed + (IF obs.injected THEN 1 ELSE 0)
        IN  /\ Len(am) = n + k + 2
            /\ SubSeq(am, 1, n) = GivenMessages
            /\ am[n + 1].role = "assistant"
            /\ Len(am[n + 1].tool_calls) = k
            /\ \A j \in 1..k :
                  /\ am[n + 1 + j].role = "tool"
                  /\ am[n + 1 + j].tool_call_id = am[n + 1].tool_calls[j].id
            /\ am[Len(am)].role = "assistant"
            /\ am[Len(am)].content.text = response[1].message.content.text

C32_Witness ==
    /\ TurnReturned
    /\ turn = 2
    /\ response[1].allMessages # <<>>
    /\ obs.injected
    /\ obs.executed = 1
    /\ obs.completionCalls = 2
    /\ Len(GivenMessages) >= 5

\* Every message of the provider's list is a message with one of the four
\* roles.
WellFormed(m) == m.role \in {"system", "user", "assistant", "tool"}

\* C33: a message appended with addMessage while a chat turn was in flight
\* is in the provider's message list once that turn has completed.
C33_AddedMessageSurvivesTurn ==
    (prov.addedInFlight /\ pc = "idle") =>
        \E i \in 1..Len(messages) : messages[i] = Assistant(ThanksText)

\* C34: once initialisation has ended with a session created, whatever its
\* later steps gave and whatever chat turns followed, every element of the
\* provider's message list is a well-formed message and the list holds
\* exactly one system message, the system prompt, as its first element.
C34_OneSystemPromptFirst ==
    (prov.isInitialized /\ prov.sessionId # NoStr) =>
        /\ messages # <<>>
        /\ \A i \in 1..Len(messages) : WellFormed(messages[i])
        /\ messages[1] = SystemPrompt
        /\ \A i \in 2..Len(messages) : messages[i].role # "system"

\* C35: every run of init() that has returned, whether its gateway calls
\* succeeded or failed, has set isInitialized to true.
C35_FinishedRunIsInitialized ==
    \A r \in 1..Len(prov.runs) :
        prov.runs[r].ipc \in {"done", "reload"} => prov.isInitialized

\* C37: a run of init() calls createSession at most twice: once with the
\* token and the stored id and, after a TOKEN_EXPIRED, 401 or 403 failure
\* of that call or of the validation, once more without them, the cookies
\* having been cleared once; any other failure ends the run without a
\* retry.
C37_AtMostOneFreshRetry ==
    \A r \in 1..Len(prov.runs) :
        /\ prov.runs[r].createSession <= 2
        /\ prov.runs[r].cleared <= 1
        /\ prov.runs[r].createSession = 2 => prov.runs[r].stored /\ prov.runs[r].cleared = 1

\* The init runs that have started and not returned.
RunsInFlight ==
    {r \in 1..Len(prov.runs) : prov.runs[r].ipc \notin {"done", "reload"}}

\* C36: at most one run of init() per provider mount, also when the token
\* changes (the auth cookie is loaded) while the first run is in flight: no
\* two runs are ever in flight together.
C36_OneInitRunPerMount ==
    /\ Len(prov.runs) <= 1
    /\ Cardinality(RunsInFlight) <= 1

\* C38: when the customer context call of init() found the cached token
\* expired, the credentials have been cleared and that run does not fetch
\* the payment accounts with that token.
C38_ExpiredTokenNotUsedAgain ==
    \A r \in 1..Len(prov.runs) :
        prov.runs[r].contextExpired =>
            /\ prov.runs[r].cleared >= 1
            /\ token = NoStr
            /\ prov.runs[r].paymentToken = NoStr

\* The token of every init run is that of the first render.
RunTokenIsNull == \A r \in 1..Len(prov.runs) : prov.runs[r].token = NoStr

\* A placeholder message of the initial search: an assistant message whose
\* tool call has a call_init_ id, or the tool message answering it.
IsPlaceholder(m) ==
    \/ \E k \in 1..Len(m.tool_calls) : IsInitId(m.tool_calls[k].id)
    \/ IsInitId(m.tool_call_id)

\* C39: the placeholder messages of the initial search are never among the
\* messages given to chat(), and once the initial search has put them in
\* the provider's message list they stay in it through every chat turn.
C39_PlaceholdersHiddenButKept ==
    /\ \A i \in 1..Len(request.messages) : ~IsPlaceholder(request.messages[i])
    /\ prov.placeholders =>
          /\ Len(messages) >= 3
          /\ messages[2] = initialSearchMessages[1]
          /\ messages[3] = initialSearchMessages[2]

\* C40: in direct mode submitOrder never posts to the order endpoint
\* without a payment account id; when no id was passed and the customer's
\* accounts hold no default one, it has returned success=false with
\* errorCode NO_PAYMENT_METHOD and posted nothing.
C40_NoOrderWithoutPaymentAccount ==
    /\ \A i \in 1..Len(orderCall.posted) : orderCall.posted[i] # 0
    /\ (/\ orderCall.pc = "returned"
        /\ orderCall.paymentAccountId = 0
        /\ \A i \in 1..Len(orderCall.accounts) :
              ~orderCall.accounts[i].IsDefaultPaymentMethod)
          => /\ ~orderCall.success
             /\ orderCall.errorCode = "NO_PAYMENT_METHOD"
             /\ orderCall.posted = <<>>

C40_Witness ==
    /\ orderCall.pc = "returned"
    /\ orderCall.paymentAccountId = 0
    /\ Len(orderCall.accounts) = 2
    /\ \A i \in 1..2 : /\ ~orderCall.accounts[i].IsDefaultPaymentMethod
                       /\ orderCall.accounts[i].PaymentAccountId # 0
    /\ orderCall.paymentAccountsCalls = 1
    /\ orderCall.errorCode = "NO_PAYMENT_METHOD"
    /\ orderCall.posted = <<>>

====
